---------------------------- MODULE Spec2Model ----------------------------
(***************************************************************************)
(* suntheme: sunrise/sunset driven light/dark theme switching.            *)
(*                                                                         *)
(* The model covers                                                        *)
(*   - the mode evaluator   (SunTimes::is_daytime / current_mode /         *)
(*                           next_switch, src/src/sun_times.rs),           *)
(*   - the daily cache      (SunTimes::get_cached_or_fetch and fetch),     *)
(*   - the scheduler loop   (run_daemon_loop, src/src/commands/daemon.rs), *)
(*   - the sink             (ThemeSwitcher::apply_theme).                  *)
(*                                                                         *)
(* Instants are UTC seconds.  A chrono DateTime<Tz> is compared, subtracted*)
(* and shifted by its instant alone, so DateTime<Utc> and DateTime<Local>  *)
(* are both modelled by the instant; the local zone is UTC, so that the    *)
(* local calendar date of instant t is t \div DaySecs.                     *)
(***************************************************************************)
EXTENDS Integers, Sequences, FiniteSets, TLC

----------------------------------------------------------------------------
(* Program constants, in seconds. *)

\* chrono::Duration::days(1)
DaySecs == 86400

\* Duration::from_secs(60) slept after a get_cached_or_fetch failure
BackoffSecs == 60

\* Duration::from_secs(60) used when the next switch is not after now
FallbackSecs == 60

\* Duration::from_secs(5) added to every sleep
BufferSecs == 5

\* Duration::from_secs(3600), the cap of a sleep
MaxSleepSecs == 3600

(* Bounds of the model. *)

\* sunrise/sunset/now of the evaluator runs range over 0..EvalSpan
\* (and now also over DaySecs..DaySecs+EvalSpan)
EvalSpan == 3

\* get_cached_or_fetch invocations of one cache run
MaxCalls == 3

\* times another party rewrites or removes the cache file in one cache run
MaxTouches == 1

\* ten-minute clock steps of one cache run
MaxAdvances == 2

\* iterations of the scheduler loop in one run
MaxIter == 3

\* seconds the calls of one loop iteration take in total
MaxLatency == 1

\* applications of opposite in a row in one ThemeMode run
MaxFlips == 2

\* results in one geocoding response
MaxResults == 2

\* queries entered in one run of get_location
MaxTries == 3

\* one-shot commands in one run
MaxCmds == 3

\* calls of apply_theme by one process in one run
MaxApplies == 1

\* a write of the state file that fails leaves at most this many bytes
MaxCut == 11

\* set or toggle commands run beside the daemon in one run
MaxManual == 1

\* toggle commands run one after the other in one run
MaxToggles == 2

\* lines of the Ghostty config file before the first update
MaxLines == 3

\* updates of the Ghostty config file in one run
MaxUpdates == 2

\* process ids the system hands out
MaxPid == 2

\* start commands one caller runs, and stop commands, in one run
MaxStarts == 2
MaxStops == 2

----------------------------------------------------------------------------
VARIABLES
    clock,          \* the system clock (Utc::now() / Local::now())
    sun_times,      \* SunTimes the evaluator or the loop holds
    mode_now,       \* `now` read by is_daytime
    current_mode,   \* result of current_mode()
    switch_now,     \* `now` read by next_switch
    next_switch,    \* result of next_switch(): <<instant, mode>>
    cache,          \* content of <cache_dir>/sun_times.json
    gof,            \* per caller: position and locals of get_cached_or_fetch
    call,           \* per caller: what its current call has seen and done
    prev,           \* summary of the last completed one-shot call
    ncalls,         \* one-shot calls started
    touches,        \* rewrites of the cache file by another party
    advances,       \* clock steps taken in a cache run
    loop,           \* position of run_daemon_loop
    now,            \* `now` of the loop (Local::now(), line 74)
    sleep_duration, \* sleep_duration of the loop
    iter,           \* loop iterations started
    lat,            \* seconds spent in calls in this iteration
    state_file,     \* mode in <state_dir>/current_theme
    ghostty,        \* mode whose theme the Ghostty config names
    applied,        \* the last apply_theme call of the loop
    owed,           \* instants passed, each awaiting a sink call with its mode
    due,            \* instants passed, each awaiting the next sink call
    served,         \* instants the last sink call answered
    returned,       \* what get_cached_or_fetch returned in this iteration
    oks,            \* loop iterations whose get_cached_or_fetch succeeded
    sinks,          \* apply_theme calls the loop has made
    slept,          \* the last thread::sleep(sleep_duration) of the loop
    io_failures,    \* iterations in a row that ended in a cache write error
    tm,             \* a ThemeMode value under as_str, from_str and opposite
    geo,            \* get_location of the init command and its geocode_location
    cmd,            \* the one-shot command (sun, status, init) that is running
    location,       \* config.location of the config file
    cache_loc,      \* the location the record in the cache file was fetched for
    sw,             \* apply_theme, set and toggle in progress, one per process
    state_text,     \* the bytes of the state file
    writer,         \* who wrote the mode line of the state file and who touched it last
    toggles,        \* the toggle commands that have run to their end, in order
    conf,           \* the Ghostty config file: its content at first, then after each update
    pids,           \* the PID file, the live processes and the start commands under way
    manual          \* the last set or toggle run beside the daemon

evalVars == <<sun_times, mode_now, current_mode, switch_now, next_switch>>
cacheVars == <<cache, gof, call, prev, ncalls, touches, advances>>
sinkVars == <<state_file, ghostty>>
loopVars == <<loop, now, sleep_duration, iter, lat, applied, owed, due, served,
              returned, oks, sinks, slept, io_failures>>
cmdVars == <<cmd, location, cache_loc>>
swVars == <<sw, state_text, writer, toggles, conf, pids>>
auxVars == <<tm, geo, cmdVars, manual, swVars, manual>>
vars == <<clock, evalVars, cacheVars, sinkVars, loopVars, auxVars>>

\* Option::None / a local not yet assigned: no instant or date is negative
None == 0 - 1
NoMode == "none"
NoTimes == [sunrise |-> None, sunset |-> None, date |-> None]
NoSwitch == <<None, NoMode>>

Modes == {"Light", "Dark"}

\* ThemeMode::opposite with the Dark arm returning Dark
opposite_stuck(mode) == IF mode = "Light" THEN "Dark" ELSE "Dark"

\* ThemeMode::opposite
opposite(mode) == IF mode = "Light" THEN "Dark" ELSE "Light"

\* A &str is the sequence of its characters.  The letters that have an
\* upper case among the characters used, as <<lower, upper>>.
CasePairs ==
    {<<"l", "L">>, <<"i", "I">>, <<"g", "G">>, <<"h", "H">>, <<"t", "T">>,
     <<"d", "D">>, <<"a", "A">>, <<"r", "R">>, <<"k", "K">>}

\* char::to_lowercase on these characters
lower(c) ==
    IF \E pr \in CasePairs : pr[2] = c
    THEN (CHOOSE pr \in CasePairs : pr[2] = c)[1]
    ELSE c

\* str::to_lowercase
to_lowercase(s) == [i \in DOMAIN s |-> lower(s[i])]

\* ThemeMode::as_str
as_str(mode) ==
    IF mode = "Light" THEN <<"l", "i", "g", "h", "t">> ELSE <<"d", "a", "r", "k">>

\* Result<ThemeMode>
ModeOk(mode) == [ok |-> TRUE, mode |-> mode]
ModeErr == [ok |-> FALSE, mode |-> NoMode]
NoParse == [ok |-> FALSE, mode |-> "unset"]

\* from_str without the to_lowercase
from_str_exact(s) ==
    IF s = <<"l", "i", "g", "h", "t">> THEN ModeOk("Light")
    ELSE IF s = <<"d", "a", "r", "k">> THEN ModeOk("Dark")
    ELSE ModeErr

\* <ThemeMode as FromStr>::from_str
from_str(s) ==
    LET t == to_lowercase(s) IN
    IF t = <<"l", "i", "g", "h", "t">> THEN ModeOk("Light")
    ELSE IF t = <<"d", "a", "r", "k">> THEN ModeOk("Dark")
    ELSE ModeErr

----------------------------------------------------------------------------
(* State file: apply_neovim_theme writes it, get_current_mode reads it *)

NL == "\n"
ModePrefix == <<"m", "o", "d", "e", "=">>
ThemePrefix == <<"t", "h", "e", "m", "e", "=">>
BackgroundPrefix == <<"b", "a", "c", "k", "g", "r", "o", "u", "n", "d", "=">>

\* config.themes.neovim.light and .dark
neovim_theme(mode) ==
    IF mode = "Light" THEN <<"d", "a", "w", "n">> ELSE <<"p", "i", "n", "e">>

\* lines 137-142: the content apply_neovim_theme formats
state_content(mode) ==
    ModePrefix \o as_str(mode) \o <<NL>>
    \o ThemePrefix \o neovim_theme(mode) \o <<NL>>
    \o BackgroundPrefix \o as_str(mode) \o <<NL>>

\* the bytes of that content up to the end of the mode word
ModeLineLen(mode) == Len(ModePrefix) + Len(as_str(mode))

\* the state file: absent, or its bytes
NoFile == [exists |-> FALSE, bytes |-> <<>>]
File(bytes) == [exists |-> TRUE, bytes |-> bytes]

\* bytes written at offset 0 of a file holding old
overlay(bytes, old) == bytes \o SubSeq(old, Len(bytes) + 1, Len(old))

CR == "\r"

\* a line without the carriage return that ends it, if one does
StripCR(line) ==
    IF line # <<>> /\ line[Len(line)] = CR THEN SubSeq(line, 1, Len(line) - 1) ELSE line

\* the pieces between line feeds; with crlf, a piece that a line feed ends
\* loses the carriage return before it
RECURSIVE SplitLines(_, _, _)
SplitLines(bytes, cur, crlf) ==
    IF bytes = <<>> THEN (IF cur = <<>> THEN <<>> ELSE <<cur>>)
    ELSE IF Head(bytes) = NL
         THEN <<IF crlf THEN StripCR(cur) ELSE cur>> \o SplitLines(Tail(bytes), <<>>, crlf)
    ELSE SplitLines(Tail(bytes), Append(cur, Head(bytes)), crlf)

\* str::lines with only the line feeds taken off
lines_keeping_cr(bytes) == SplitLines(bytes, <<>>, FALSE)

\* str::lines: a line ends at a line feed or at a carriage return followed
\* by a line feed, and neither is part of the line
lines(bytes) == SplitLines(bytes, <<>>, TRUE)

\* str::strip_prefix
strip_prefix(line, prefix) ==
    IF Len(line) >= Len(prefix) /\ SubSeq(line, 1, Len(prefix)) = prefix
    THEN [some |-> TRUE, rest |-> SubSeq(line, Len(prefix) + 1, Len(line))]
    ELSE [some |-> FALSE, rest |-> <<>>]

\* ThemeSwitcher::get_current_mode on the file; Ok(None) is ModeOk(NoMode)
get_current_mode(file) ==
    IF ~file.exists THEN ModeOk(NoMode)
    ELSE LET ls == lines(file.bytes)
             found == {i \in 1..Len(ls) : strip_prefix(ls[i], ModePrefix).some}
         IN  IF found = {} THEN ModeOk(NoMode)
             ELSE LET i == CHOOSE j \in found : \A k \in found : j <= k
                  IN  from_str(strip_prefix(ls[i], ModePrefix).rest)

----------------------------------------------------------------------------
(* Ghostty config file: update_ghostty_theme *)

ThemeKey == <<"t", "h", "e", "m", "e">>

\* char::is_whitespace on the characters the contents here have
WhiteSpace == {" ", "\t", CR, NL}

\* str::trim
RECURSIVE trim_start(_)
trim_start(str) ==
    IF str # <<>> /\ Head(str) \in WhiteSpace THEN trim_start(Tail(str)) ELSE str

RECURSIVE trim_end(_)
trim_end(str) ==
    IF str # <<>> /\ str[Len(str)] \in WhiteSpace
    THEN trim_end(SubSeq(str, 1, Len(str) - 1)) ELSE str

trim(str) == trim_end(trim_start(str))

\* str::starts_with
starts_with(str, prefix) == strip_prefix(str, prefix).some

\* str::find(char): the position of the first occurrence, 0 for None
find(str, ch) ==
    LET at == {i \in 1..Len(str) : str[i] = ch}
    IN  IF at = {} THEN 0 ELSE CHOOSE i \in at : \A j \in at : i <= j

\* lines 91-95: the line sets the key `theme`
IsThemeLine(line) ==
    LET trimmed == trim(line)
        eq_pos == find(trimmed, "=")
    IN  /\ starts_with(trimmed, ThemeKey)
        /\ eq_pos # 0
        /\ trim(SubSeq(trimmed, 1, eq_pos - 1)) = ThemeKey

\* format!("theme = {}", theme_name)
ThemeLine(theme_name) == ThemeKey \o <<" ", "=", " ">> \o theme_name

\* [String]::join("\n")
RECURSIVE join(_)
join(ls) ==
    IF ls = <<>> THEN <<>>
    ELSE IF Len(ls) = 1 THEN ls[1]
    ELSE ls[1] \o <<NL>> \o join(Tail(ls))

\* the lines with the first line that sets `theme` replaced, or with the
\* theme line put first when none does
WithTheme(ls, theme_name) ==
    LET found == {i \in 1..Len(ls) : IsThemeLine(ls[i])}
    IN  IF found = {} THEN <<ThemeLine(theme_name)>> \o ls
        ELSE [ls EXCEPT ![CHOOSE i \in found : \A j \in found : i <= j] =
                            ThemeLine(theme_name)]

\* update_ghostty_theme with every line that sets `theme` replaced
update_ghostty_theme_every_line(content, theme_name) ==
    LET ls == lines(content)
        new == IF \E i \in 1..Len(ls) : IsThemeLine(ls[i])
               THEN [i \in 1..Len(ls) |->
                        IF IsThemeLine(ls[i]) THEN ThemeLine(theme_name) ELSE ls[i]]
               ELSE <<ThemeLine(theme_name)>> \o ls
    IN  join(new) \o <<NL>>

\* ThemeSwitcher::update_ghostty_theme
update_ghostty_theme(content, theme_name) ==
    join(WithTheme(lines(content), theme_name)) \o <<NL>>

NoConf == [content |-> <<>>, theme_name |-> <<>>, out |-> <<>>]

----------------------------------------------------------------------------
(* PID file: daemonize writes it, is_running reads it *)

\* the PID file: absent, or the pid its text parses to (0: no pid in it)
NoPidFile == [exists |-> FALSE, pid |-> 0]
PidFile(pid) == [exists |-> TRUE, pid |-> pid]

Callers == {"a", "b"}
NoStart == [pc |-> "idle", ret |-> "none", n |-> 0]

\* no PID file, no process, no command under way
NoPids == [file |-> NoPidFile, lock |-> 0, loops |-> {}, others |-> {},
           st |-> [c \in Callers |-> NoStart], stops |-> 0]

\* daemon.rs 187-196: Result<Option<i32>>
get_pid(file) ==
    IF ~file.exists THEN [ok |-> TRUE, some |-> FALSE, pid |-> 0]
    ELSE IF file.pid = 0 THEN [ok |-> FALSE, some |-> FALSE, pid |-> 0]
    ELSE [ok |-> TRUE, some |-> TRUE, pid |-> file.pid]

\* process_exists finding no process
process_exists_never(live, pid) == FALSE

\* daemon.rs 198-200: kill(pid, 0) == 0
process_exists(live, pid) == pid \in live

\* daemon.rs 179-185: Result<bool>
is_running(file, live) ==
    LET pid == get_pid(file)
    IN  [ok |-> pid.ok, running |-> pid.ok /\ pid.some /\ process_exists(live, pid.pid)]

NoSw == [pc |-> "idle", op |-> "none", mode |-> NoMode, seen |-> NoParse,
         before |-> NoMode, ret |-> "none", n |-> 0]
NoWriter == [mode |-> NoMode, by |-> "none", touched_by |-> "none"]

NoTm == [s |-> <<>>, parsed |-> NoParse, m0 |-> NoMode, m |-> NoMode, flips |-> 0,
         printed |-> FALSE, text |-> <<>>, back |-> NoParse]

----------------------------------------------------------------------------
(* Location resolver: geocode_location *)

\* What the geocoding request can give: no response, a body that does not
\* parse as Vec<NominatimResult>, or the list of results.
GeoTransportFailure == [transport |-> FALSE, json |-> FALSE, results |-> <<>>]
GeoMalformedBody == [transport |-> TRUE, json |-> FALSE, results |-> <<>>]
GeoResults(results) == [transport |-> TRUE, json |-> TRUE, results |-> results]

\* Result<Vec<GeocodedLocation>>
GeoOk(locations) == [ok |-> TRUE, locations |-> locations, err |-> "none"]
GeoErr(e) == [ok |-> FALSE, locations |-> <<>>, err |-> e]
NoGeoRet == [ok |-> FALSE, locations |-> <<>>, err |-> "unset"]

\* str::parse::<f64>: a coordinate string is [ok, v], v the number it
\* spells when ok
parse_f64(str) == str

\* lines 43-54: the results whose lat and lon both parse, in order
filter_map(results) ==
    LET kept == SelectSeq(results, LAMBDA r : parse_f64(r.lat).ok /\ parse_f64(r.lon).ok)
    IN  [i \in 1..Len(kept) |->
            [display_name |-> kept[i].display_name,
             latitude |-> parse_f64(kept[i].lat).v,
             longitude |-> parse_f64(kept[i].lon).v]]

\* geocode_location without the bail on an empty result list
geocode_location_lenient(resp) ==
    IF ~resp.transport THEN GeoErr("network")
    ELSE IF ~resp.json THEN GeoErr("parse")
    ELSE GeoOk(filter_map(resp.results))

\* geocode_location on response resp
geocode_location(resp) ==
    IF ~resp.transport THEN GeoErr("network")
    ELSE IF ~resp.json THEN GeoErr("parse")
    ELSE IF resp.results = <<>> THEN GeoErr("none")
    ELSE GeoOk(filter_map(resp.results))

NoGeo == [pc |-> "off", tries |-> 0, resp |-> GeoTransportFailure, ret |-> NoGeoRet,
          said |-> "", selected |-> <<>>]

NoApply == [mode |-> NoMode, at |-> None, st |-> NoTimes, ok |-> FALSE, iter |-> 0,
            was |-> NoMode]

NoSleep == [iter |-> 0, transition |-> NoSwitch, woke |-> None]

Min(a, b) == IF a <= b THEN a ELSE b

\* Local::now().date_naive()
LocalDate(t) == t \div DaySecs

----------------------------------------------------------------------------
(* Mode evaluator *)

\* the SunTimes invariant of the design: sunrise before sunset
WellFormed(st) == st.sunrise < st.sunset

\* DateTime::with_timezone keeps the instant
sunrise_local(st) == st.sunrise

sunset_local(st) == st.sunset

\* the sunrise instant itself taken as night
is_daytime_exclusive(st, t) == t > st.sunrise /\ t < st.sunset

is_daytime(st, t) == t >= st.sunrise /\ t < st.sunset

mode_of(st, t) == IF is_daytime(st, t) THEN "Light" ELSE "Dark"

\* the sunrise instant itself still waiting for sunrise
switch_of_inclusive(st, t) ==
    IF t <= st.sunrise THEN <<sunrise_local(st), "Light">>
    ELSE IF t < st.sunset THEN <<sunset_local(st), "Dark">>
    ELSE <<sunrise_local(st) + DaySecs, "Light">>

\* after sunset, the day added to the sunset instead of the sunrise
switch_of_sunset_day(st, t) ==
    IF t < st.sunrise THEN <<sunrise_local(st), "Light">>
    ELSE IF t < st.sunset THEN <<sunset_local(st), "Dark">>
    ELSE <<sunset_local(st) + DaySecs, "Light">>

switch_of(st, t) ==
    IF t < st.sunrise THEN <<sunrise_local(st), "Light">>
    ELSE IF t < st.sunset THEN <<sunset_local(st), "Dark">>
    ELSE <<sunrise_local(st) + DaySecs, "Light">>

----------------------------------------------------------------------------
(* Daily cache: SunTimes::fetch and SunTimes::get_cached_or_fetch *)

Procs == {"daemon", "cli"}

\* Contents of the cache file.  "record" is a file serde_json parses as
\* CachedData; "unreadable" a file read_to_string fails on; "garbage" and
\* "partial" (truncated or half written) files that do not parse.
Absent == [kind |-> "absent", sun_times |-> NoTimes, cached_at |-> None]
Unreadable == [kind |-> "unreadable", sun_times |-> NoTimes, cached_at |-> None]
Garbage == [kind |-> "garbage", sun_times |-> NoTimes, cached_at |-> None]
Partial == [kind |-> "partial", sun_times |-> NoTimes, cached_at |-> None]

\* CachedData { sun_times, cached_at } as serde_json::to_string_pretty writes
\* it and from_str reads it back (RFC 3339 instants and ISO dates: lossless)
CachedData(st, at) == [kind |-> "record", sun_times |-> st, cached_at |-> at]

\* Result<SunTimes>
Ok(st) == [ok |-> TRUE, sun_times |-> st, err |-> "none"]
Err(e) == [ok |-> FALSE, sun_times |-> NoTimes, err |-> e]
NoRet == [ok |-> FALSE, sun_times |-> NoTimes, err |-> "unset"]

\* What the oracle request can give: no response, a body that does not
\* parse as ApiResponse, or an ApiResponse { results, status }.
NoResp ==
    [transport |-> FALSE, json |-> FALSE, status |-> "", sunrise |-> None, sunset |-> None]
TransportFailure ==
    [transport |-> FALSE, json |-> FALSE, status |-> "-", sunrise |-> None, sunset |-> None]
MalformedBody ==
    [transport |-> TRUE, json |-> FALSE, status |-> "-", sunrise |-> None, sunset |-> None]
ApiResponse(status, sunrise, sunset) ==
    [transport |-> TRUE, json |-> TRUE, status |-> status,
     sunrise |-> sunrise, sunset |-> sunset]

\* a response with a failure status accepted as sun times
fetch_any_status(resp, t) ==
    IF ~resp.transport THEN Err("network")
    ELSE IF ~resp.json THEN Err("parse")
    ELSE Ok([sunrise |-> resp.sunrise, sunset |-> resp.sunset, date |-> LocalDate(t)])

\* the date taken from the returned sunrise instead of the local today
fetch_service_date(resp, t) ==
    IF ~resp.transport THEN Err("network")
    ELSE IF ~resp.json THEN Err("parse")
    ELSE IF resp.status # "OK" THEN Err("status")
    ELSE Ok([sunrise |-> resp.sunrise, sunset |-> resp.sunset,
             date |-> LocalDate(resp.sunrise)])

\* SunTimes::fetch on response resp, completed at instant t
fetch(resp, t) ==
    IF ~resp.transport THEN Err("network")
    ELSE IF ~resp.json THEN Err("parse")
    ELSE IF resp.status # "OK" THEN Err("status")
    ELSE Ok([sunrise |-> resp.sunrise, sunset |-> resp.sunset, date |-> LocalDate(t)])

Idle == [pc |-> "idle", today |-> None, fetched |-> NoTimes,
         content |-> Absent, ret |-> NoRet]

NoCall == [cache0 |-> Absent, seen |-> Absent, oracle |-> 0, resp |-> NoResp,
           fetched_at |-> None, io |-> "none", writes |-> 0, foreign |-> FALSE,
           entered |-> None]

NoPrev == [valid |-> FALSE, entered |-> None, oracle |-> 0, ok |-> FALSE,
           touched |-> FALSE]

\* what the calls in progress record when the cache file is changed by
\* someone other than caller p
Foreign(p) ==
    [q \in Procs |->
        IF q # p /\ gof[q].pc \notin {"idle"}
        THEN [call[q] EXCEPT !.foreign = TRUE] ELSE call[q]]

\* lines 110-111: the cache path and today's local date
GofEnter(p) ==
    /\ gof[p].pc = "idle"
    /\ gof' = [gof EXCEPT ![p] = [Idle EXCEPT !.pc = "read",
                                              !.today = LocalDate(clock)]]
    /\ call' = [call EXCEPT ![p] = [NoCall EXCEPT !.cache0 = cache,
                                                  !.entered = clock]]
    /\ UNCHANGED <<cache>>

\* Config.location: none before init has saved a config file
NoLoc == "none"
Locations == {"A", "B"}

\* sunrise and sunset at location l on local date d
SunAt(l, d) ==
    [sunrise |-> d * DaySecs + (IF l = "A" THEN 21600 ELSE 25200),
     sunset |-> d * DaySecs + (IF l = "A" THEN 64800 ELSE 61200),
     date |-> d]

\* what the oracle can give at time t to a request for location l
OracleFor(l, t) ==
    {TransportFailure,
     ApiResponse("OK", SunAt(l, LocalDate(t)).sunrise, SunAt(l, LocalDate(t)).sunset)}

\* no one-shot command running; n counts the commands run so far
NoCmd == [name |-> "none", pc |-> "idle", n |-> 0, loc |-> NoLoc, calls |-> 0,
          ret |-> NoRet, oracle |-> 0, seen |-> Absent, seen_loc |-> NoLoc,
          today |-> None, result |-> "none", shown |-> "none"]

\* lines 113-122 with the date check replaced by the age of the entry
GofRead_by_age(p) ==
    /\ gof[p].pc = "read"
    /\ call' = [call EXCEPT ![p].seen = cache]
    /\ IF cache.kind = "record" /\ clock - cache.cached_at < DaySecs
       THEN gof' = [gof EXCEPT ![p].pc = "done", ![p].ret = Ok(cache.sun_times)]
       ELSE gof' = [gof EXCEPT ![p].pc = "fetch"]
    /\ UNCHANGED <<cache>>

\* lines 113-122 with the cache never consulted
GofRead_always_miss(p) ==
    /\ gof[p].pc = "read"
    /\ call' = [call EXCEPT ![p].seen = cache]
    /\ gof' = [gof EXCEPT ![p].pc = "fetch"]
    /\ UNCHANGED <<cache>>

\* lines 113-122 with read and parse failures propagated
GofRead_strict(p) ==
    /\ gof[p].pc = "read"
    /\ call' = [call EXCEPT ![p].seen = cache]
    /\ IF cache.kind = "record" /\ cache.sun_times.date = gof[p].today
       THEN gof' = [gof EXCEPT ![p].pc = "done", ![p].ret = Ok(cache.sun_times)]
       ELSE IF cache.kind \in {"unreadable", "garbage", "partial"}
       THEN gof' = [gof EXCEPT ![p].pc = "done", ![p].ret = Err("cache")]
       ELSE gof' = [gof EXCEPT ![p].pc = "fetch"]
    /\ UNCHANGED <<cache>>

\* lines 113-122 with a hit only on an entry that holds the sun times of
\* the configured location
GofRead_for_location(p) ==
    /\ gof[p].pc = "read"
    /\ call' = [call EXCEPT ![p].seen = cache]
    /\ IF /\ cache.kind = "record"
          /\ cache.sun_times.date = gof[p].today
          /\ location \in Locations => cache.sun_times = SunAt(location, gof[p].today)
       THEN gof' = [gof EXCEPT ![p].pc = "done", ![p].ret = Ok(cache.sun_times)]
       ELSE gof' = [gof EXCEPT ![p].pc = "fetch"]
    /\ UNCHANGED <<cache>>

\* lines 113-122: exists, read_to_string, from_str, date check
GofRead(p) ==
    /\ gof[p].pc = "read"
    /\ call' = [call EXCEPT ![p].seen = cache]
    /\ IF cache.kind = "record" /\ cache.sun_times.date = gof[p].today
       THEN gof' = [gof EXCEPT ![p].pc = "done", ![p].ret = Ok(cache.sun_times)]
       ELSE gof' = [gof EXCEPT ![p].pc = "fetch"]
    /\ UNCHANGED <<cache>>

\* line 125 with a stale file removed when the fetch fails
GofFetch_dropping(p, responses) ==
    /\ gof[p].pc = "fetch"
    /\ \E resp \in responses :
         LET r == fetch(resp, clock) IN
         /\ call' = [Foreign(p) EXCEPT ![p].oracle = @ + 1, ![p].resp = resp,
                                       ![p].fetched_at = clock,
                                       ![p].writes = IF r.ok THEN @ ELSE @ + 1]
         /\ IF r.ok
            THEN /\ gof' = [gof EXCEPT ![p].pc = "open", ![p].fetched = r.sun_times]
                 /\ UNCHANGED cache
            ELSE /\ gof' = [gof EXCEPT ![p].pc = "done", ![p].ret = r]
                 /\ cache' = Absent

\* line 125: Self::fetch(latitude, longitude)?
GofFetch(p, responses) ==
    /\ gof[p].pc = "fetch"
    /\ \E resp \in responses :
         LET r == fetch(resp, clock) IN
         /\ call' = [call EXCEPT ![p].oracle = @ + 1, ![p].resp = resp,
                                 ![p].fetched_at = clock]
         /\ IF r.ok
            THEN gof' = [gof EXCEPT ![p].pc = "open", ![p].fetched = r.sun_times]
            ELSE gof' = [gof EXCEPT ![p].pc = "done", ![p].ret = r]
    /\ UNCHANGED <<cache>>

\* lines 128-137, first half: create_dir_all, the CachedData to write, and
\* fs::write creating or truncating the file
GofOpen(p) ==
    /\ gof[p].pc = "open"
    /\ \/ /\ gof' = [gof EXCEPT ![p].pc = "write",
                                ![p].content = CachedData(gof[p].fetched, clock)]
          /\ cache' = Partial
          /\ call' = [Foreign(p) EXCEPT ![p].writes = @ + 1]
       \/ /\ gof' = [gof EXCEPT ![p].pc = "done", ![p].ret = Err("io")]
          /\ call' = [call EXCEPT ![p].io = "fail"]
          /\ UNCHANGED cache

\* line 137 with the new record merged into a record already there
GofWrite_merging(p) ==
    /\ gof[p].pc = "write"
    /\ cache' = IF call[p].cache0.kind = "record"
                THEN [gof[p].content EXCEPT !.sun_times.date = call[p].cache0.sun_times.date]
                ELSE gof[p].content
    /\ gof' = [gof EXCEPT ![p].pc = "done", ![p].ret = Ok(gof[p].fetched)]
    /\ call' = [Foreign(p) EXCEPT ![p].io = "ok", ![p].writes = @ + 1]

\* lines 137-139 with the error of fs::write dropped and the fetched sun
\* times returned all the same
GofWrite_ignoring_error(p) ==
    /\ gof[p].pc = "write"
    /\ \/ /\ cache' = gof[p].content
          /\ gof' = [gof EXCEPT ![p].pc = "done", ![p].ret = Ok(gof[p].fetched)]
          /\ call' = [Foreign(p) EXCEPT ![p].io = "ok", ![p].writes = @ + 1]
       \/ /\ gof' = [gof EXCEPT ![p].pc = "done", ![p].ret = Ok(gof[p].fetched)]
          /\ call' = [call EXCEPT ![p].io = "fail"]
          /\ UNCHANGED cache

\* lines 137-139: fs::write writing the content, then Ok(sun_times).  The
\* bytes go to offset 0 of the file as it is by then: onto a record another
\* writer put there since the truncation they leave that record's tail
\* behind when it was the longer one.
GofWrite(p) ==
    /\ gof[p].pc = "write"
    /\ \/ /\ cache' \in IF cache.kind = "record"
                       THEN {gof[p].content, Garbage}
                       ELSE {gof[p].content}
          /\ gof' = [gof EXCEPT ![p].pc = "done", ![p].ret = Ok(gof[p].fetched)]
          /\ call' = [Foreign(p) EXCEPT ![p].io = "ok", ![p].writes = @ + 1]
       \/ /\ gof' = [gof EXCEPT ![p].pc = "done", ![p].ret = Err("io")]
          /\ call' = [call EXCEPT ![p].io = "fail"]
          /\ UNCHANGED cache

\* one step of get_cached_or_fetch for caller p
GofStep(p, responses) ==
    \/ GofRead(p)
    \/ GofFetch(p, responses)
    \/ GofOpen(p)
    \/ GofWrite(p)

----------------------------------------------------------------------------
(* Sink: ThemeSwitcher::apply_theme *)

\* apply_theme runs apply_ghostty_theme, apply_neovim_theme and write_state
\* and stops at the first that fails
ApplyOutcomes == {"ok", "ghostty_err", "neovim_err"}

apply_theme(mode, outcome) ==
    /\ ghostty' = IF outcome = "ghostty_err" THEN ghostty ELSE mode
    /\ state_file' = IF outcome = "ok" THEN mode ELSE state_file

----------------------------------------------------------------------------
(* Scheduler loop: run_daemon_loop *)

\* the instants of sun times st passed when the clock goes from c0 to c1,
\* each with the mode that holds after it
Passed(st, c0, c1) ==
    {[mode |-> "Light", at |-> st.sunrise, st |-> st] :
        x \in IF st # NoTimes /\ c0 < st.sunrise /\ st.sunrise <= c1 THEN {1} ELSE {}}
    \cup
    {[mode |-> "Dark", at |-> st.sunset, st |-> st] :
        x \in IF st # NoTimes /\ c0 < st.sunset /\ st.sunset <= c1 THEN {1} ELSE {}}

\* lines 76-89 without the cap of one hour
sleep_for_uncapped(next, t) ==
    (IF next > t THEN next - t ELSE FallbackSecs) + BufferSecs

\* lines 76-89 without the buffer
sleep_for_unbuffered(next, t) ==
    Min(IF next > t THEN next - t ELSE FallbackSecs, MaxSleepSecs)

\* lines 76-89 with no time slept for a switch that is not after now
sleep_for_clamped(next, t) ==
    Min((IF next > t THEN next - t ELSE 0) + BufferSecs, MaxSleepSecs)

\* lines 76-89: the time to the next switch (60s when it is not after now),
\* plus the buffer, capped at one hour
sleep_for(next, t) ==
    Min((IF next > t THEN next - t ELSE FallbackSecs) + BufferSecs, MaxSleepSecs)

\* the loop's locals go out of scope at the end of an iteration
EndIteration ==
    /\ sun_times' = NoTimes
    /\ mode_now' = None
    /\ current_mode' = NoMode
    /\ switch_now' = None
    /\ next_switch' = NoSwitch
    /\ now' = None
    /\ sleep_duration' = None
    /\ returned' = NoRet
    /\ lat' = 0

\* lines 52-57: an iteration begins with the call of get_cached_or_fetch
LoopFetch ==
    /\ loop = "fetching"
    /\ iter < MaxIter
    /\ iter' = iter + 1
    /\ GofEnter("daemon")
    /\ UNCHANGED <<clock, evalVars, prev, ncalls, touches, advances, sinkVars,
                   loop, now, sleep_duration, lat, applied, owed, due, served,
                   returned, oks, sinks, slept, io_failures>>
    /\ UNCHANGED auxVars

\* the call proceeds; a failure of the oracle or of the cache write ends
\* what the passed instants can expect
LoopGof(responses) ==
    /\ loop = "fetching"
    /\ GofStep("daemon", responses)
    /\ LET r == gof'["daemon"].ret
           failed == gof'["daemon"].pc = "done" /\ ~r.ok
       IN /\ owed' = IF failed /\ r.err # "io" THEN {} ELSE owed
          /\ due' = IF failed THEN {} ELSE due
    /\ UNCHANGED <<clock, evalVars, prev, ncalls, touches, advances, sinkVars,
                   loop, now, sleep_duration, iter, lat, applied, served,
                   returned, oks, sinks, slept, io_failures>>
    /\ UNCHANGED auxVars

\* lines 54-64 with the error handed to the caller, as `?` does
LoopFetched_propagating ==
    /\ loop = "fetching"
    /\ gof["daemon"].pc = "done"
    /\ IF gof["daemon"].ret.ok
       THEN /\ sun_times' = gof["daemon"].ret.sun_times
            /\ loop' = "current_mode"
       ELSE /\ loop' = "returned"
            /\ UNCHANGED sun_times
    /\ gof' = [gof EXCEPT !["daemon"] = Idle]
    /\ call' = [call EXCEPT !["daemon"] = NoCall]
    /\ returned' = gof["daemon"].ret
    /\ oks' = IF gof["daemon"].ret.ok THEN oks + 1 ELSE oks
    /\ io_failures' = IF gof["daemon"].ret.err = "io" THEN io_failures + 1 ELSE 0
    /\ UNCHANGED <<clock, mode_now, current_mode, switch_now, next_switch,
                   cache, prev, ncalls, touches, advances, sinkVars,
                   now, sleep_duration, iter, lat, applied, owed, due, served,
                   sinks, slept>>
    /\ UNCHANGED auxVars

\* lines 54-64 with the sun times of the cache file, of whatever date,
\* used when the call fails
LoopFetched_falling_back ==
    /\ loop = "fetching"
    /\ gof["daemon"].pc = "done"
    /\ IF gof["daemon"].ret.ok
       THEN /\ sun_times' = gof["daemon"].ret.sun_times
            /\ loop' = "current_mode"
       ELSE IF cache.kind = "record"
       THEN /\ sun_times' = cache.sun_times
            /\ loop' = "current_mode"
       ELSE /\ loop' = "backoff"
            /\ UNCHANGED sun_times
    /\ gof' = [gof EXCEPT !["daemon"] = Idle]
    /\ call' = [call EXCEPT !["daemon"] = NoCall]
    /\ returned' = gof["daemon"].ret
    /\ oks' = IF gof["daemon"].ret.ok THEN oks + 1 ELSE oks
    /\ io_failures' = IF gof["daemon"].ret.err = "io" THEN io_failures + 1 ELSE 0
    /\ UNCHANGED <<clock, mode_now, current_mode, switch_now, next_switch,
                   cache, prev, ncalls, touches, advances, sinkVars,
                   now, sleep_duration, iter, lat, applied, owed, due, served,
                   sinks, slept>>
    /\ UNCHANGED auxVars

\* lines 54-64: the match on the result
LoopFetched ==
    /\ loop = "fetching"
    /\ gof["daemon"].pc = "done"
    /\ IF gof["daemon"].ret.ok
       THEN /\ sun_times' = gof["daemon"].ret.sun_times
            /\ loop' = "current_mode"
       ELSE /\ loop' = "backoff"
            /\ UNCHANGED sun_times
    /\ gof' = [gof EXCEPT !["daemon"] = Idle]
    /\ call' = [call EXCEPT !["daemon"] = NoCall]
    /\ returned' = gof["daemon"].ret
    /\ oks' = IF gof["daemon"].ret.ok THEN oks + 1 ELSE oks
    /\ io_failures' = IF gof["daemon"].ret.err = "io" THEN io_failures + 1 ELSE 0
    /\ UNCHANGED <<clock, mode_now, current_mode, switch_now, next_switch,
                   cache, prev, ncalls, touches, advances, sinkVars,
                   now, sleep_duration, iter, lat, applied, owed, due, served,
                   sinks, slept>>
    /\ UNCHANGED auxVars

\* lines 59-63 with the sleep growing with the failures so far
LoopBackoff_growing ==
    /\ loop = "backoff"
    /\ clock' = clock + BackoffSecs * (iter - oks)
    /\ loop' = "fetching"
    /\ EndIteration
    /\ UNCHANGED <<cacheVars, sinkVars, iter, applied, owed, due, served,
                   oks, sinks, slept, io_failures>>
    /\ UNCHANGED auxVars

\* lines 59-63: thread::sleep(60s); continue
LoopBackoff ==
    /\ loop = "backoff"
    /\ clock' = clock + BackoffSecs
    /\ loop' = "fetching"
    /\ EndIteration
    /\ UNCHANGED <<cacheVars, sinkVars, iter, applied, owed, due, served,
                   oks, sinks, slept, io_failures>>
    /\ UNCHANGED auxVars

\* line 67 with the persisted mode toggled at every wake but the first
LoopCurrentMode_toggling ==
    /\ loop = "current_mode"
    /\ mode_now' = clock
    /\ current_mode' = IF applied.iter > 0 /\ state_file \in Modes
                       THEN opposite(state_file)
                       ELSE mode_of(sun_times, clock)
    /\ loop' = "apply"
    /\ UNCHANGED <<clock, sun_times, switch_now, next_switch, cacheVars, sinkVars,
                   now, sleep_duration, iter, lat, applied, owed, due, served,
                   returned, oks, sinks, slept, io_failures>>
    /\ UNCHANGED auxVars

\* line 67 with the mode of the switch the loop slept for
LoopCurrentMode_from_transition ==
    /\ loop = "current_mode"
    /\ mode_now' = clock
    /\ current_mode' = IF slept.transition[2] \in Modes
                       THEN slept.transition[2]
                       ELSE mode_of(sun_times, clock)
    /\ loop' = "apply"
    /\ UNCHANGED <<clock, sun_times, switch_now, next_switch, cacheVars, sinkVars,
                   now, sleep_duration, iter, lat, applied, owed, due, served,
                   returned, oks, sinks, slept, io_failures>>
    /\ UNCHANGED auxVars

\* line 67: sun_times.current_mode()
LoopCurrentMode ==
    /\ loop = "current_mode"
    /\ mode_now' = clock
    /\ current_mode' = mode_of(sun_times, clock)
    /\ loop' = "apply"
    /\ UNCHANGED <<clock, sun_times, switch_now, next_switch, cacheVars, sinkVars,
                   now, sleep_duration, iter, lat, applied, owed, due, served,
                   returned, oks, sinks, slept, io_failures>>
    /\ UNCHANGED auxVars

\* lines 68-70 with a sink error handled like a failed fetch
LoopApply_aborting ==
    /\ loop = "apply"
    /\ \E outcome \in ApplyOutcomes :
         /\ apply_theme(current_mode, outcome)
         /\ applied' = [mode |-> current_mode, at |-> mode_now, st |-> sun_times,
                        ok |-> outcome = "ok", iter |-> iter, was |-> state_file]
         /\ IF outcome = "ok"
            THEN /\ owed' = {o \in owed : ~(o.mode = current_mode /\ o.at <= mode_now)}
                 /\ due' = {o \in due : ~(o.at <= mode_now)}
                 /\ served' = {o \in due : o.at <= mode_now}
                 /\ loop' = "next_switch"
            ELSE /\ owed' = {}
                 /\ due' = {}
                 /\ served' = {}
                 /\ loop' = "backoff"
    /\ sinks' = sinks + 1
    /\ UNCHANGED <<clock, evalVars, cacheVars, now, sleep_duration, iter, lat,
                   returned, oks, slept, io_failures>>
    /\ UNCHANGED auxVars

\* lines 68-70 with the sink called only when the mode is not the one the
\* loop applied last
LoopApply_when_changed ==
    /\ loop = "apply"
    /\ IF applied.ok /\ applied.mode = current_mode
       THEN /\ applied' = [applied EXCEPT !.at = mode_now, !.st = sun_times,
                                          !.iter = iter, !.was = state_file]
            /\ UNCHANGED <<sinkVars, owed, due, served>>
       ELSE \E outcome \in ApplyOutcomes :
              /\ apply_theme(current_mode, outcome)
              /\ applied' = [mode |-> current_mode, at |-> mode_now, st |-> sun_times,
                             ok |-> outcome = "ok", iter |-> iter, was |-> state_file]
              /\ IF outcome = "ok"
                 THEN /\ owed' = {o \in owed : ~(o.mode = current_mode /\ o.at <= mode_now)}
                      /\ due' = {o \in due : ~(o.at <= mode_now)}
                      /\ served' = {o \in due : o.at <= mode_now}
                 ELSE /\ owed' = {}
                      /\ due' = {}
                      /\ served' = {}
    /\ sinks' = sinks + 1
    /\ loop' = "next_switch"
    /\ UNCHANGED <<clock, evalVars, cacheVars, now, sleep_duration, iter, lat,
                   returned, oks, slept, io_failures>>
    /\ UNCHANGED auxVars

\* lines 68-70: switcher.apply_theme(current_mode), an error only logged
LoopApply ==
    /\ loop = "apply"
    /\ \E outcome \in ApplyOutcomes :
         /\ apply_theme(current_mode, outcome)
         /\ applied' = [mode |-> current_mode, at |-> mode_now, st |-> sun_times,
                        ok |-> outcome = "ok", iter |-> iter, was |-> state_file]
         /\ IF outcome = "ok"
            THEN /\ owed' = {o \in owed : ~(o.mode = current_mode /\ o.at <= mode_now)}
                 /\ due' = {o \in due : ~(o.at <= mode_now)}
                 /\ served' = {o \in due : o.at <= mode_now}
            ELSE /\ owed' = {}
                 /\ due' = {}
                 /\ served' = {}
    /\ sinks' = sinks + 1
    /\ loop' = "next_switch"
    /\ UNCHANGED <<clock, evalVars, cacheVars, now, sleep_duration, iter, lat,
                   returned, oks, slept, io_failures>>
    /\ UNCHANGED auxVars

\* line 73: sun_times.next_switch()
LoopNextSwitch ==
    /\ loop = "next_switch"
    /\ switch_now' = clock
    /\ next_switch' = switch_of(sun_times, clock)
    /\ loop' = "sleep_duration"
    /\ UNCHANGED <<clock, sun_times, mode_now, current_mode, cacheVars, sinkVars,
                   now, sleep_duration, iter, lat, applied, owed, due, served,
                   returned, oks, sinks, slept, io_failures>>
    /\ UNCHANGED auxVars

\* lines 74-89: now and sleep_duration
LoopSleepDuration ==
    /\ loop = "sleep_duration"
    /\ now' = clock
    /\ sleep_duration' = sleep_for(next_switch[1], clock)
    /\ loop' = "sleep"
    /\ UNCHANGED <<clock, evalVars, cacheVars, sinkVars, iter, lat, applied,
                   owed, due, served, returned, oks, sinks, slept, io_failures>>
    /\ UNCHANGED auxVars

\* line 98: thread::sleep(sleep_duration), then the next iteration
LoopSleep ==
    /\ loop = "sleep"
    /\ clock' = clock + sleep_duration
    /\ owed' = owed \cup Passed(sun_times, clock, clock')
    /\ due' = due \cup Passed(sun_times, clock, clock')
    /\ slept' = [iter |-> iter, transition |-> next_switch,
                 woke |-> clock + sleep_duration]
    /\ loop' = "fetching"
    /\ EndIteration
    /\ UNCHANGED <<cacheVars, sinkVars, iter, applied, served, oks, sinks,
                   io_failures>>
    /\ UNCHANGED auxVars

\* a second passes while the loop is inside a call
Tick ==
    /\ \/ loop \in {"current_mode", "apply", "next_switch", "sleep_duration"}
       \/ loop = "fetching" /\ gof["daemon"].pc # "idle"
    /\ lat < MaxLatency
    /\ lat' = lat + 1
    /\ clock' = clock + 1
    /\ owed' = owed \cup Passed(sun_times, clock, clock')
    /\ due' = due \cup Passed(sun_times, clock, clock')
    /\ UNCHANGED <<evalVars, cacheVars, sinkVars, loop, now, sleep_duration,
                   iter, applied, served, returned, oks, sinks, slept, io_failures>>
    /\ UNCHANGED auxVars

\* sun times the oracle gives in loop runs: a day of over two hours, a day
\* of three seconds, and a day that begins three seconds before midnight
DayLong == [sunrise |-> DaySecs + 1000, sunset |-> DaySecs + 9000]
DayShort == [sunrise |-> DaySecs + 1000, sunset |-> DaySecs + 1003]
DayLate == [sunrise |-> 2 * DaySecs - 3, sunset |-> 2 * DaySecs + 5000]

LoopResponses ==
    {TransportFailure}
    \cup {ApiResponse("OK", d.sunrise, d.sunset) : d \in {DayLong, DayShort, DayLate}}

\* the daemon is started shortly before the sunrise, at the sunrise, in the
\* evening, or shortly before midnight
LoopStarts == {DaySecs + 400, DaySecs + 999, 2 * DaySecs - 2000, 2 * DaySecs - 10}

\* no one-shot command has run and there is no config file
CmdIdle ==
    /\ cmd = NoCmd
    /\ location = NoLoc
    /\ cache_loc = NoLoc

\* no set or toggle has run beside the daemon; n counts them
NoManual == [n |-> 0, op |-> "none", mode |-> NoMode, at |-> None, sinks |-> 0,
             due |-> 0, asleep |-> FALSE]

\* no apply_theme has run and there is no state file
SwIdle ==
    /\ sw = [p \in Procs |-> NoSw]
    /\ state_text = NoFile
    /\ writer = NoWriter
    /\ toggles = <<>>
    /\ conf = NoConf
    /\ pids = NoPids

AuxIdle ==
    /\ tm = NoTm
    /\ geo = NoGeo
    /\ CmdIdle
    /\ SwIdle
    /\ manual = NoManual

Init ==
    /\ clock \in LoopStarts
    /\ cache \in {Absent,
                  CachedData([sunrise |-> DayLong.sunrise, sunset |-> DayLong.sunset,
                              date |-> 1], DaySecs)}
    /\ gof = [p \in Procs |-> Idle]
    /\ call = [p \in Procs |-> NoCall]
    /\ prev = NoPrev
    /\ ncalls = 0
    /\ touches = 0
    /\ advances = 0
    /\ sun_times = NoTimes
    /\ mode_now = None
    /\ current_mode = NoMode
    /\ switch_now = None
    /\ next_switch = NoSwitch
    /\ loop = "fetching"
    /\ now = None
    /\ sleep_duration = None
    /\ iter = 0
    /\ lat = 0
    /\ state_file \in {NoMode, "Light"}
    /\ ghostty = state_file
    /\ applied = NoApply
    /\ owed = {}
    /\ due = {}
    /\ served = {}
    /\ returned = NoRet
    /\ oks = 0
    /\ sinks = 0
    /\ slept = NoSleep
    /\ io_failures = 0
    /\ AuxIdle

Next ==
    \/ LoopFetch
    \/ LoopGof(LoopResponses)
    \/ LoopFetched
    \/ LoopBackoff
    \/ LoopCurrentMode
    \/ LoopApply
    \/ LoopNextSwitch
    \/ LoopSleepDuration
    \/ LoopSleep
    \/ Tick

Spec == Init /\ [][Next]_vars

----------------------------------------------------------------------------
(* Evaluator runs: the functions applied to sampled inputs. *)

EvalInstants == 0..EvalSpan

EvalNows == EvalInstants \cup {DaySecs + t : t \in EvalInstants}

EvalInit ==
    /\ clock \in EvalNows
    /\ sun_times \in [sunrise : EvalInstants, sunset : EvalInstants, date : {0}]
    /\ mode_now = None
    /\ current_mode = NoMode
    /\ switch_now = None
    /\ next_switch = NoSwitch
    /\ cache = Absent
    /\ gof = [p \in Procs |-> Idle]
    /\ call = [p \in Procs |-> NoCall]
    /\ prev = NoPrev
    /\ ncalls = 0
    /\ touches = 0
    /\ advances = 0
    /\ loop = "off"
    /\ now = None
    /\ sleep_duration = None
    /\ iter = 0
    /\ lat = 0
    /\ state_file = NoMode
    /\ ghostty = NoMode
    /\ applied = NoApply
    /\ owed = {}
    /\ due = {}
    /\ served = {}
    /\ returned = NoRet
    /\ oks = 0
    /\ sinks = 0
    /\ slept = NoSleep
    /\ io_failures = 0
    /\ AuxIdle

EvalCurrentMode ==
    /\ mode_now = None
    /\ mode_now' = clock
    /\ current_mode' = mode_of(sun_times, clock)
    /\ UNCHANGED <<clock, sun_times, switch_now, next_switch, cacheVars, sinkVars, loopVars>>
    /\ UNCHANGED auxVars

EvalNextSwitch ==
    /\ switch_now = None
    /\ switch_now' = clock
    /\ next_switch' = switch_of(sun_times, clock)
    /\ UNCHANGED <<clock, sun_times, mode_now, current_mode, cacheVars, sinkVars, loopVars>>
    /\ UNCHANGED auxVars

EvalNext == EvalCurrentMode \/ EvalNextSwitch

EvalSpec == EvalInit /\ [][EvalNext]_vars

----------------------------------------------------------------------------
(* Cache runs: one-shot callers (sun, status, init) invoke                 *)
(* get_cached_or_fetch one after the other around a midnight, while the    *)
(* clock advances and another party may rewrite or remove the cache file.  *)

\* 23:55 of day 1
CacheStart == 2 * DaySecs - 300

SunA == [sunrise |-> DaySecs + 21600, sunset |-> DaySecs + 64800]
SunB == [sunrise |-> DaySecs + 21660, sunset |-> DaySecs + 64740]

CacheResponses ==
    {TransportFailure, MalformedBody,
     ApiResponse("INVALID_REQUEST", SunA.sunrise, SunA.sunset),
     ApiResponse("OK", SunA.sunrise, SunA.sunset),
     ApiResponse("OK", SunB.sunrise, SunB.sunset)}

\* files an earlier run or another program may have left behind
InitialCaches ==
    {Absent, Unreadable, Garbage, Partial}
    \cup {CachedData([sunrise |-> SunA.sunrise, sunset |-> SunA.sunset, date |-> d], at) :
            d \in {0, 1}, at \in {DaySecs, CacheStart - 600}}

CacheInit ==
    /\ clock = CacheStart
    /\ cache \in InitialCaches
    /\ gof = [p \in Procs |-> Idle]
    /\ call = [p \in Procs |-> NoCall]
    /\ prev = NoPrev
    /\ ncalls = 0
    /\ touches = 0
    /\ advances = 0
    /\ sun_times = NoTimes
    /\ mode_now = None
    /\ current_mode = NoMode
    /\ switch_now = None
    /\ next_switch = NoSwitch
    /\ loop = "off"
    /\ now = None
    /\ sleep_duration = None
    /\ iter = 0
    /\ lat = 0
    /\ state_file = NoMode
    /\ ghostty = NoMode
    /\ applied = NoApply
    /\ owed = {}
    /\ due = {}
    /\ served = {}
    /\ returned = NoRet
    /\ oks = 0
    /\ sinks = 0
    /\ slept = NoSleep
    /\ io_failures = 0
    /\ AuxIdle

\* a one-shot command calls get_cached_or_fetch
CliEnter ==
    /\ ncalls < MaxCalls
    /\ GofEnter("cli")
    /\ ncalls' = ncalls + 1
    /\ UNCHANGED <<clock, evalVars, prev, touches, advances, sinkVars, loopVars>>
    /\ UNCHANGED auxVars

CliStep ==
    /\ GofStep("cli", CacheResponses)
    /\ UNCHANGED <<clock, evalVars, prev, ncalls, touches, advances, sinkVars, loopVars>>
    /\ UNCHANGED auxVars

\* the command has its answer and exits
CliExit ==
    /\ gof["cli"].pc = "done"
    /\ prev' = [valid |-> TRUE, entered |-> call["cli"].entered,
                oracle |-> call["cli"].oracle, ok |-> gof["cli"].ret.ok,
                touched |-> call["cli"].foreign]
    /\ gof' = [gof EXCEPT !["cli"] = Idle]
    /\ call' = [call EXCEPT !["cli"] = NoCall]
    /\ UNCHANGED <<clock, evalVars, cache, ncalls, touches, advances, sinkVars, loopVars>>
    /\ UNCHANGED auxVars

\* ten minutes pass
Advance ==
    /\ advances < MaxAdvances
    /\ clock' = clock + 600
    /\ advances' = advances + 1
    /\ UNCHANGED <<evalVars, cache, gof, call, prev, ncalls, touches, sinkVars, loopVars>>
    /\ UNCHANGED auxVars

\* another party removes the cache file or replaces its content
Touch ==
    /\ touches < MaxTouches
    /\ touches' = touches + 1
    /\ cache' \in {Absent, Garbage,
                   CachedData([sunrise |-> SunB.sunrise, sunset |-> SunB.sunset,
                               date |-> LocalDate(clock)], clock)} \ {cache}
    /\ call' = Foreign("other")
    /\ prev' = [prev EXCEPT !.touched = TRUE]
    /\ UNCHANGED <<clock, evalVars, gof, ncalls, advances, sinkVars, loopVars>>
    /\ UNCHANGED auxVars

CacheNext == CliEnter \/ CliStep \/ CliExit \/ Advance \/ Touch

CacheSpec == CacheInit /\ [][CacheNext]_vars

----------------------------------------------------------------------------
(* ThemeMode runs: from_str on sampled strings, as_str and opposite on    *)
(* both modes.                                                             *)

EvalIdle ==
    /\ sun_times = NoTimes
    /\ mode_now = None
    /\ current_mode = NoMode
    /\ switch_now = None
    /\ next_switch = NoSwitch

CacheIdle ==
    /\ cache = Absent
    /\ gof = [p \in Procs |-> Idle]
    /\ call = [p \in Procs |-> NoCall]
    /\ prev = NoPrev
    /\ ncalls = 0
    /\ touches = 0
    /\ advances = 0

SinkIdle ==
    /\ state_file = NoMode
    /\ ghostty = NoMode

LoopIdle ==
    /\ loop = "off"
    /\ now = None
    /\ sleep_duration = None
    /\ iter = 0
    /\ lat = 0
    /\ applied = NoApply
    /\ owed = {}
    /\ due = {}
    /\ served = {}
    /\ returned = NoRet
    /\ oks = 0
    /\ sinks = 0
    /\ slept = NoSleep
    /\ io_failures = 0

RECURSIVE CaseVariants(_)
\* the spellings of word w in every mix of letter cases
CaseVariants(w) ==
    IF w = <<>> THEN {<<>>}
    ELSE {<<c>> \o r :
            c \in {Head(w)} \cup {pr[2] : pr \in {q \in CasePairs : q[1] = Head(w)}},
            r \in CaseVariants(Tail(w))}

\* strings near a mode name: cut short, with a character more, padded,
\* with two letters swapped, or another word
NearMisses(w) ==
    {SubSeq(w, 1, k) : k \in 0..(Len(w) - 1)}
    \cup {w \o <<"s">>, <<" ">> \o w, w \o <<" ">>,
          <<w[2], w[1]>> \o SubSeq(w, 3, Len(w)),
          <<"a", "u", "t", "o">>}

ModeStrings ==
    UNION {CaseVariants(as_str(m)) \cup NearMisses(as_str(m)) \cup
           NearMisses([i \in 1..Len(as_str(m)) |->
                         (CHOOSE pr \in CasePairs : pr[1] = as_str(m)[i])[2]]) :
           m \in Modes}

ModeInit ==
    /\ clock = 0
    /\ EvalIdle
    /\ CacheIdle
    /\ SinkIdle
    /\ LoopIdle
    /\ \E s \in ModeStrings, m \in Modes :
          tm = [NoTm EXCEPT !.s = s, !.m0 = m, !.m = m]
    /\ geo = NoGeo
    /\ CmdIdle
    /\ SwIdle
    /\ manual = NoManual

\* s.parse::<ThemeMode>()
ModeFromStr ==
    /\ tm.parsed = NoParse
    /\ tm' = [tm EXCEPT !.parsed = from_str(tm.s)]
    /\ UNCHANGED <<clock, evalVars, cacheVars, sinkVars, loopVars, geo, cmdVars, swVars, manual>>

\* mode.as_str() and the parse of what it gives
ModeAsStr ==
    /\ ~tm.printed
    /\ tm' = [tm EXCEPT !.printed = TRUE, !.text = as_str(tm.m0),
                        !.back = from_str(as_str(tm.m0))]
    /\ UNCHANGED <<clock, evalVars, cacheVars, sinkVars, loopVars, geo, cmdVars, swVars, manual>>

\* mode.opposite()
ModeOpposite ==
    /\ tm.flips < MaxFlips
    /\ tm' = [tm EXCEPT !.m = opposite(tm.m), !.flips = @ + 1]
    /\ UNCHANGED <<clock, evalVars, cacheVars, sinkVars, loopVars, geo, cmdVars, swVars, manual>>

ModeNext == ModeFromStr \/ ModeAsStr \/ ModeOpposite

ModeSpec == ModeInit /\ [][ModeNext]_vars

----------------------------------------------------------------------------
(* Location runs: get_location of the init command asks for a place until *)
(* geocode_location gives candidates and one is selected.                  *)

\* a coordinate string that parses and one that does not
Coord(v) == [ok |-> TRUE, v |-> v]
BadCoord == [ok |-> FALSE, v |-> 0]

\* results the geocoder can list
GeoSamples ==
    {[display_name |-> "Oslo", lat |-> Coord(60), lon |-> Coord(11)],
     [display_name |-> "Quito", lat |-> Coord(0), lon |-> Coord(0 - 78)],
     [display_name |-> "Nowhere", lat |-> BadCoord, lon |-> Coord(5)],
     [display_name |-> "Nowhen", lat |-> Coord(5), lon |-> BadCoord]}

GeoResponses ==
    {GeoTransportFailure, GeoMalformedBody}
    \cup {GeoResults(rs) : rs \in UNION {[1..n -> GeoSamples] : n \in 0..MaxResults}}

GeoInit ==
    /\ clock = 0
    /\ EvalIdle
    /\ CacheIdle
    /\ SinkIdle
    /\ LoopIdle
    /\ tm = NoTm
    /\ geo = [NoGeo EXCEPT !.pc = "prompt"]
    /\ CmdIdle
    /\ SwIdle
    /\ manual = NoManual

\* lines 202-208: the query is read and geocode_location called
GeoLookup ==
    /\ geo.pc = "prompt"
    /\ geo.tries < MaxTries
    /\ \E resp \in GeoResponses :
          geo' = [geo EXCEPT !.pc = "resolved", !.tries = @ + 1, !.resp = resp,
                             !.ret = geocode_location(resp), !.said = ""]
    /\ UNCHANGED <<clock, evalVars, cacheVars, sinkVars, loopVars, tm, cmdVars, swVars, manual>>

\* lines 209-213 and 234-237: nothing to select from, ask again
GeoAgain ==
    /\ geo.pc = "resolved"
    /\ ~geo.ret.ok \/ geo.ret.locations = <<>>
    /\ geo' = [geo EXCEPT !.pc = "prompt",
                          !.said = IF geo.ret.ok THEN "No locations found"
                                   ELSE "Error"]
    /\ UNCHANGED <<clock, evalVars, cacheVars, sinkVars, loopVars, tm, cmdVars, swVars, manual>>

\* lines 215-232: a candidate is selected and returned
GeoSelect ==
    /\ geo.pc = "resolved"
    /\ geo.ret.ok /\ geo.ret.locations # <<>>
    /\ \E i \in 1..Len(geo.ret.locations) :
          geo' = [geo EXCEPT !.pc = "selected",
                             !.selected = <<geo.ret.locations[i].latitude,
                                            geo.ret.locations[i].longitude>>]
    /\ UNCHANGED <<clock, evalVars, cacheVars, sinkVars, loopVars, tm, cmdVars, swVars, manual>>

GeoNext == GeoLookup \/ GeoAgain \/ GeoSelect

GeoSpec == GeoInit /\ [][GeoNext]_vars

----------------------------------------------------------------------------
(* Command runs: the one-shot commands sun, status and init run one after  *)
(* the other around a midnight; init saves the location it was given.      *)

CmdInit ==
    /\ clock = CacheStart
    /\ EvalIdle
    /\ gof = [p \in Procs |-> Idle]
    /\ call = [p \in Procs |-> NoCall]
    /\ prev = NoPrev
    /\ ncalls = 0
    /\ touches = 0
    /\ advances = 0
    /\ SinkIdle
    /\ LoopIdle
    /\ tm = NoTm
    /\ geo = NoGeo
    /\ cmd = NoCmd
    /\ SwIdle
    /\ manual = NoManual
    /\ \/ /\ location = NoLoc
          /\ cache = Absent
          /\ cache_loc = NoLoc
       \/ /\ location = "A"
          /\ \/ /\ cache = Absent
                /\ cache_loc = NoLoc
             \/ /\ cache = CachedData(SunAt("A", LocalDate(CacheStart)), CacheStart - 600)
                /\ cache_loc = "A"

\* sun.rs line 7 and daemon.rs line 134: Config::load
CmdLoad(name) ==
    /\ cmd.pc = "idle"
    /\ cmd.n < MaxCmds
    /\ cmd' = IF location # NoLoc
              THEN [NoCmd EXCEPT !.name = name, !.n = cmd.n + 1, !.pc = "call",
                                 !.loc = location]
              ELSE [NoCmd EXCEPT !.name = name, !.n = cmd.n + 1, !.pc = "exited",
                                 !.result = IF name = "sun" THEN "err" ELSE "ok",
                                 !.shown = IF name = "sun" THEN "none" ELSE "no_config"]
    /\ UNCHANGED <<clock, evalVars, cacheVars, sinkVars, loopVars, tm, geo,
                   location, cache_loc,
                   swVars, manual>>

\* the sun command starts
CmdSun == CmdLoad("sun")

\* the status command starts
CmdStatus == CmdLoad("status")

\* init.rs lines 40-126: the init command takes a location and saves the
\* config
CmdSetup ==
    /\ cmd.pc = "idle"
    /\ cmd.n < MaxCmds
    /\ \E l \in Locations :
          /\ location' = l
          /\ cmd' = [NoCmd EXCEPT !.name = "init", !.n = cmd.n + 1, !.pc = "call",
                                  !.loc = l]
    /\ UNCHANGED <<clock, evalVars, cacheVars, sinkVars, loopVars, tm, geo, cache_loc,
                   swVars, manual>>

\* sun.rs 14, daemon.rs 157, init.rs 145: the call of get_cached_or_fetch
CmdCall ==
    /\ cmd.pc = "call"
    /\ GofEnter("cli")
    /\ cmd' = [cmd EXCEPT !.pc = "gof", !.calls = @ + 1]
    /\ UNCHANGED <<clock, evalVars, prev, ncalls, touches, advances, sinkVars,
                   loopVars, tm, geo, location, cache_loc,
                   swVars, manual>>

\* the call proceeds, with the oracle asked for the location passed
CmdGof ==
    /\ cmd.pc = "gof"
    /\ GofStep("cli", OracleFor(cmd.loc, clock))
    /\ cmd' = IF gof["cli"].pc = "read"
              THEN [cmd EXCEPT !.seen = cache, !.seen_loc = cache_loc,
                               !.today = gof["cli"].today]
              ELSE cmd
    /\ cache_loc' = IF cache' = cache THEN cache_loc
                    ELSE IF cache'.kind = "record" THEN cmd.loc
                    ELSE NoLoc
    /\ UNCHANGED <<clock, evalVars, prev, ncalls, touches, advances, sinkVars,
                   loopVars, tm, geo, location,
                   swVars, manual>>

\* the match on the result with the call made again when it failed
CmdReturn_retrying ==
    /\ cmd.pc = "gof"
    /\ gof["cli"].pc = "done"
    /\ LET r == gof["cli"].ret
           c == [cmd EXCEPT !.ret = r, !.oracle = @ + call["cli"].oracle]
       IN  cmd' =
             IF ~r.ok THEN [c EXCEPT !.pc = "call"]
             ELSE IF cmd.name = "init" THEN [c EXCEPT !.pc = "apply"]
             ELSE [c EXCEPT !.pc = "exited", !.result = "ok", !.shown = "times"]
    /\ gof' = [gof EXCEPT !["cli"] = Idle]
    /\ call' = [call EXCEPT !["cli"] = NoCall]
    /\ UNCHANGED <<clock, evalVars, cache, prev, ncalls, touches, advances, sinkVars,
                   loopVars, tm, geo, location, cache_loc,
                   swVars, manual>>

\* sun.rs 14-36, daemon.rs 157-170, init.rs 145-170: what the command does
\* with the result
CmdReturn ==
    /\ cmd.pc = "gof"
    /\ gof["cli"].pc = "done"
    /\ LET r == gof["cli"].ret
           c == [cmd EXCEPT !.ret = r, !.oracle = @ + call["cli"].oracle]
       IN  cmd' =
             IF cmd.name = "sun"
             THEN IF r.ok
                  THEN [c EXCEPT !.pc = "exited", !.result = "ok", !.shown = "times"]
                  ELSE [c EXCEPT !.pc = "exited", !.result = "err"]
             ELSE IF cmd.name = "status"
             THEN IF r.ok
                  THEN [c EXCEPT !.pc = "exited", !.result = "ok", !.shown = "times"]
                  ELSE [c EXCEPT !.pc = "exited", !.result = "ok"]
             ELSE IF r.ok
                  THEN [c EXCEPT !.pc = "apply"]
                  ELSE [c EXCEPT !.pc = "exited", !.result = "ok", !.shown = "warning"]
    /\ gof' = [gof EXCEPT !["cli"] = Idle]
    /\ call' = [call EXCEPT !["cli"] = NoCall]
    /\ UNCHANGED <<clock, evalVars, cache, prev, ncalls, touches, advances, sinkVars,
                   loopVars, tm, geo, location, cache_loc,
                   swVars, manual>>

\* init.rs 147-162: current_mode and apply_theme, an error only printed
CmdApply ==
    /\ cmd.pc = "apply"
    /\ \E outcome \in ApplyOutcomes :
          /\ apply_theme(mode_of(cmd.ret.sun_times, clock), outcome)
          /\ cmd' = [cmd EXCEPT !.pc = "exited", !.result = "ok",
                                !.shown = IF outcome = "ok" THEN "applied"
                                          ELSE "warning"]
    /\ UNCHANGED <<clock, evalVars, cacheVars, loopVars, tm, geo, location, cache_loc,
                   swVars, manual>>

\* the process of the command ends
CmdExit ==
    /\ cmd.pc = "exited"
    /\ cmd' = [NoCmd EXCEPT !.n = cmd.n]
    /\ UNCHANGED <<clock, evalVars, cacheVars, sinkVars, loopVars, tm, geo,
                   location, cache_loc,
                   swVars, manual>>

CmdNext ==
    \/ CmdSun
    \/ CmdStatus
    \/ CmdSetup
    \/ CmdCall
    \/ CmdGof
    \/ CmdReturn
    \/ CmdApply
    \/ CmdExit
    \/ Advance

CmdSpec == CmdInit /\ [][CmdNext]_vars

----------------------------------------------------------------------------
(* Switcher runs: the daemon's Applying step and the set and toggle        *)
(* commands run apply_theme, each in its own process, on one state file.   *)

SwInit ==
    /\ clock = 0
    /\ EvalIdle
    /\ CacheIdle
    /\ LoopIdle
    /\ ghostty = NoMode
    /\ tm = NoTm
    /\ geo = NoGeo
    /\ CmdIdle
    /\ manual = NoManual
    /\ toggles = <<>>
    /\ conf = NoConf
    /\ pids = NoPids
    /\ sw = [p \in Procs |-> NoSw]
    /\ \/ /\ state_text = NoFile
          /\ state_file = NoMode
          /\ writer = NoWriter
       \/ \E m \in Modes :
            /\ state_text = File(state_content(m))
            /\ state_file = m
            /\ writer = [mode |-> m, by |-> "earlier", touched_by |-> "earlier"]

\* the mode the first mode line of the file gives, if it gives one
ModeOfText(file) ==
    LET r == get_current_mode(file) IN IF r.ok THEN r.mode ELSE NoMode

\* daemon.rs 68 and theme.rs 14: apply_theme(mode) is called
SwApply(p) ==
    /\ sw[p].pc = "idle"
    /\ sw[p].n < MaxApplies
    /\ \E m \in Modes :
          sw' = [sw EXCEPT ![p] = [NoSw EXCEPT !.pc = "ghostty", !.op = "apply",
                                               !.mode = m, !.n = sw[p].n + 1]]
    /\ UNCHANGED <<clock, evalVars, cacheVars, sinkVars, loopVars, tm, geo, cmdVars, manual,
                   state_text, writer, toggles, conf, pids>>

\* theme.rs 24-30 with Dark picked whatever the persisted mode
SwToggle_to_dark ==
    /\ sw["cli"].pc = "idle"
    /\ sw["cli"].n < MaxApplies
    /\ LET r == get_current_mode(state_text)
           c == [NoSw EXCEPT !.op = "toggle", !.seen = r, !.n = sw["cli"].n + 1]
       IN  sw' = [sw EXCEPT !["cli"] =
                    IF ~r.ok THEN [c EXCEPT !.pc = "done", !.ret = "err"]
                    ELSE [c EXCEPT !.pc = "ghostty", !.mode = "Dark"]]
    /\ UNCHANGED <<clock, evalVars, cacheVars, sinkVars, loopVars, tm, geo, cmdVars, manual,
                   state_text, writer, toggles, conf, pids>>

\* theme.rs 24-30: toggle reads the persisted mode and picks the new one
SwToggle ==
    /\ sw["cli"].pc = "idle"
    /\ sw["cli"].n < MaxApplies
    /\ LET r == get_current_mode(state_text)
           c == [NoSw EXCEPT !.op = "toggle", !.seen = r, !.n = sw["cli"].n + 1]
       IN  sw' = [sw EXCEPT !["cli"] =
                    IF ~r.ok THEN [c EXCEPT !.pc = "done", !.ret = "err"]
                    ELSE [c EXCEPT !.pc = "ghostty",
                                   !.mode = IF r.mode \in Modes THEN opposite(r.mode)
                                            ELSE "Dark"]]
    /\ UNCHANGED <<clock, evalVars, cacheVars, sinkVars, loopVars, tm, geo, cmdVars, manual,
                   state_text, writer, toggles, conf, pids>>

\* theme_switcher.rs 18: apply_ghostty_theme(mode)?
SwGhostty(p) ==
    /\ sw[p].pc = "ghostty"
    /\ \/ /\ ghostty' = sw[p].mode
          /\ sw' = [sw EXCEPT ![p].pc = "open"]
       \/ /\ sw' = [sw EXCEPT ![p].pc = "done", ![p].ret = "err"]
          /\ UNCHANGED ghostty
    /\ UNCHANGED <<clock, evalVars, cacheVars, state_file, loopVars, tm, geo, cmdVars, manual,
                   state_text, writer, toggles, conf, pids>>

\* theme_switcher.rs 132-144: state_file, create_dir_all, and fs::write
\* creating or truncating the file
SwOpen(p) ==
    /\ sw[p].pc = "open"
    /\ \/ /\ state_text' = File(<<>>)
          /\ state_file' = NoMode
          /\ writer' = [writer EXCEPT !.touched_by = p]
          /\ sw' = [sw EXCEPT ![p].pc = "write", ![p].before = ModeOfText(state_text)]
       \/ /\ sw' = [sw EXCEPT ![p].pc = "done", ![p].ret = "err"]
          /\ UNCHANGED <<state_text, state_file, writer>>
    /\ UNCHANGED <<clock, evalVars, cacheVars, ghostty, loopVars, tm, geo, cmdVars, manual,
                   toggles, conf, pids>>

\* theme_switcher.rs 144-147 with the error of fs::write dropped
SwWrite_unchecked(p) ==
    /\ sw[p].pc = "write"
    /\ LET content == state_content(sw[p].mode) IN
       \E k \in (0..Min(MaxCut, Len(content))) \cup {Len(content)} :
          /\ state_text' = File(overlay(SubSeq(content, 1, k), state_text.bytes))
          /\ writer' = IF k >= ModeLineLen(sw[p].mode)
                       THEN [mode |-> sw[p].mode, by |-> p, touched_by |-> p]
                       ELSE [writer EXCEPT !.touched_by = p]
          /\ sw' = [sw EXCEPT ![p].pc = "done", ![p].ret = "ok"]
    /\ state_file' = ModeOfText(state_text')
    /\ UNCHANGED <<clock, evalVars, cacheVars, ghostty, loopVars, tm, geo, cmdVars, manual,
                   toggles, conf, pids>>

\* theme_switcher.rs 144-147 and 19-21: fs::write writes the content, all
\* of it or, when it fails, some of it; then write_state and Ok(())
SwWrite(p) ==
    /\ sw[p].pc = "write"
    /\ LET content == state_content(sw[p].mode) IN
       \E k \in (0..Min(MaxCut, Len(content))) \cup {Len(content)} :
          /\ state_text' = File(overlay(SubSeq(content, 1, k), state_text.bytes))
          /\ writer' = IF k >= ModeLineLen(sw[p].mode)
                       THEN [mode |-> sw[p].mode, by |-> p, touched_by |-> p]
                       ELSE [writer EXCEPT !.touched_by = p]
          /\ sw' = [sw EXCEPT ![p].pc = "done",
                              ![p].ret = IF k = Len(content) THEN "ok" ELSE "err"]
    /\ state_file' = ModeOfText(state_text')
    /\ UNCHANGED <<clock, evalVars, cacheVars, ghostty, loopVars, tm, geo, cmdVars, manual,
                   toggles, conf, pids>>

\* apply_theme, set or toggle returns
SwReturn(p) ==
    /\ sw[p].pc = "done"
    /\ sw' = [sw EXCEPT ![p] = [NoSw EXCEPT !.n = sw[p].n]]
    /\ UNCHANGED <<clock, evalVars, cacheVars, sinkVars, loopVars, tm, geo, cmdVars, manual,
                   state_text, writer, toggles, conf, pids>>

SwNext ==
    \/ SwToggle
    \/ \E p \in Procs :
          \/ SwApply(p)
          \/ SwGhostty(p)
          \/ SwOpen(p)
          \/ SwWrite(p)
          \/ SwReturn(p)

SwSpec == SwInit /\ [][SwNext]_vars

----------------------------------------------------------------------------
(* Toggle runs: toggle commands run one after the other, each in a new     *)
(* process, with nothing else writing the state file.                      *)

TogInit ==
    /\ clock = 0
    /\ EvalIdle
    /\ CacheIdle
    /\ LoopIdle
    /\ ghostty = NoMode
    /\ tm = NoTm
    /\ geo = NoGeo
    /\ CmdIdle
    /\ manual = NoManual
    /\ toggles = <<>>
    /\ conf = NoConf
    /\ pids = NoPids
    /\ sw = [p \in Procs |-> NoSw]
    /\ \/ /\ state_text \in {NoFile, File(<<>>)}
          /\ state_file = NoMode
          /\ writer = NoWriter
       \/ \E m \in Modes :
            /\ state_text = File(state_content(m))
            /\ state_file = m
            /\ writer = [mode |-> m, by |-> "earlier", touched_by |-> "earlier"]

\* theme.rs 20-30: a toggle command starts
TogToggle ==
    /\ Len(toggles) < MaxToggles
    /\ SwToggle

\* theme_switcher.rs 17-22: its apply_theme proceeds
TogStep == SwGhostty("cli") \/ SwOpen("cli") \/ SwWrite("cli")

\* theme.rs 30-33: the command ends, with what it read, what it applied,
\* its result and the mode the state file gives afterwards
TogExit ==
    /\ sw["cli"].pc = "done"
    /\ toggles' = Append(toggles, [seen |-> sw["cli"].seen, mode |-> sw["cli"].mode,
                                   ret |-> sw["cli"].ret,
                                   after |-> get_current_mode(state_text)])
    /\ sw' = [sw EXCEPT !["cli"] = NoSw]
    /\ UNCHANGED <<clock, evalVars, cacheVars, sinkVars, loopVars, tm, geo, cmdVars, manual,
                   state_text, writer, conf, pids>>

TogNext == TogToggle \/ TogStep \/ TogExit

TogSpec == TogInit /\ [][TogNext]_vars

----------------------------------------------------------------------------
(* Config updates: update_ghostty_theme applied to a config file, and      *)
(* again to what it gave, with the same theme name.                        *)

\* lines a config file can hold: the key `theme` with and without spaces
\* around it, a key that starts with `theme`, another key with and
\* without a carriage return at its end, and an empty line
ConfLines ==
    { <<"t", "h", "e", "m", "e", " ", "=", " ", "a">>,
      <<" ", "t", "h", "e", "m", "e", " ", " ", "=", "b">>,
      <<"t", "h", "e", "m", "e", "s", "=", "c">>,
      <<"f", "=", "1">>,
      <<"f", "=", "1", CR>>,
      <<>> }

\* line endings: a line feed, or a carriage return and a line feed
LineEnds == {<<NL>>, <<CR, NL>>}

\* the contents of at most n lines, each ended by a line ending
RECURSIVE EndedContents(_)
EndedContents(n) ==
    IF n = 0 THEN {<<>>}
    ELSE LET shorter == EndedContents(n - 1)
         IN  shorter \cup {l \o e \o c : l \in ConfLines, e \in LineEnds, c \in shorter}

\* the same, and those whose last line has no line ending
ConfContents ==
    EndedContents(MaxLines)
        \cup {c \o l : c \in EndedContents(MaxLines - 1), l \in ConfLines}

\* config.themes.light.ghostty / .dark.ghostty
ThemeNames == {<<"a">>}

ConfInit ==
    /\ clock = 0
    /\ EvalIdle
    /\ CacheIdle
    /\ SinkIdle
    /\ LoopIdle
    /\ tm = NoTm
    /\ geo = NoGeo
    /\ CmdIdle
    /\ manual = NoManual
    /\ sw = [p \in Procs |-> NoSw]
    /\ state_text = NoFile
    /\ writer = NoWriter
    /\ toggles = <<>>
    /\ \E c \in ConfContents, name \in ThemeNames :
          conf = [content |-> c, theme_name |-> name, out |-> <<>>]
    /\ pids = NoPids

\* theme_switcher.rs 41-44: the file is read, updated and written back
ConfUpdate ==
    /\ Len(conf.out) < MaxUpdates
    /\ LET content == IF conf.out = <<>> THEN conf.content ELSE conf.out[Len(conf.out)]
       IN  conf' = [conf EXCEPT !.out = Append(@, update_ghostty_theme(content,
                                                                        conf.theme_name))]
    /\ UNCHANGED <<clock, evalVars, cacheVars, sinkVars, loopVars, tm, geo, cmdVars, manual,
                   sw, state_text, writer, toggles, pids>>

ConfNext == ConfUpdate

ConfSpec == ConfInit /\ [][ConfNext]_vars

----------------------------------------------------------------------------
(* Daemon start: start commands of two callers, step by step, with stop    *)
(* commands, the end of the daemon process, and other processes that come  *)
(* and go and may get a process id the PID file still holds.               *)

LivePids == pids.loops \cup pids.others
FreePids == (1..MaxPid) \ LivePids

PidInit ==
    /\ clock = 0
    /\ EvalIdle
    /\ CacheIdle
    /\ SinkIdle
    /\ LoopIdle
    /\ tm = NoTm
    /\ geo = NoGeo
    /\ CmdIdle
    /\ manual = NoManual
    /\ sw = [p \in Procs |-> NoSw]
    /\ state_text = NoFile
    /\ writer = NoWriter
    /\ toggles = <<>>
    /\ conf = NoConf
    /\ \E file \in {NoPidFile, PidFile(0), PidFile(1)} :
          pids = [NoPids EXCEPT !.file = file]

\* daemon.rs 10-13: start asks is_running; an error ends the command, a
\* running daemon ends it with Ok and nothing done
StartCheck(c) ==
    /\ pids.st[c].pc = "idle"
    /\ pids.st[c].n < MaxStarts
    /\ LET r == is_running(pids.file, LivePids)
           s == [NoStart EXCEPT !.n = pids.st[c].n + 1]
       IN  pids' = [pids EXCEPT !.st[c] =
                      IF ~r.ok THEN [s EXCEPT !.pc = "done", !.ret = "err"]
                      ELSE IF r.running THEN [s EXCEPT !.pc = "done", !.ret = "already running"]
                      ELSE [s EXCEPT !.pc = "daemonize"]]
    /\ UNCHANGED <<clock, evalVars, cacheVars, sinkVars, loopVars, tm, geo, cmdVars, manual,
                   sw, state_text, writer, toggles, conf>>

\* daemon.rs 15-40: Config::load, the directory or the log file fail, or
\* daemonize fails: the PID file is locked by a live daemon, or fork fails.
\* Otherwise the daemon process holds the lock, its pid is in the PID
\* file and it runs the loop.
StartDaemonize(c) ==
    /\ pids.st[c].pc = "daemonize"
    /\ \/ pids' = [pids EXCEPT !.st[c].pc = "done", !.st[c].ret = "err"]
       \/ /\ pids.lock = 0
          /\ \E p \in FreePids :
                pids' = [pids EXCEPT !.file = PidFile(p), !.lock = p,
                                     !.loops = @ \cup {p},
                                     !.st[c].pc = "done", !.st[c].ret = "started"]
    /\ UNCHANGED <<clock, evalVars, cacheVars, sinkVars, loopVars, tm, geo, cmdVars, manual,
                   sw, state_text, writer, toggles, conf>>

\* main.rs: the start command's process ends
StartExit(c) ==
    /\ pids.st[c].pc = "done"
    /\ pids' = [pids EXCEPT !.st[c].pc = "idle"]
    /\ UNCHANGED <<clock, evalVars, cacheVars, sinkVars, loopVars, tm, geo, cmdVars, manual,
                   sw, state_text, writer, toggles, conf>>

\* daemon.rs 102-131: stop. Without a PID file, or with one that holds no
\* pid, nothing is done; otherwise the process with that pid, if there is
\* one, gets SIGTERM, which ends it, and the PID file is removed.
DaemonStop ==
    /\ pids.stops < MaxStops
    /\ LET file == pids.file
           done == [pids EXCEPT !.stops = @ + 1]
       IN  pids' = IF ~file.exists \/ file.pid = 0 THEN done
                   ELSE [done EXCEPT !.loops = @ \ {file.pid},
                                     !.others = @ \ {file.pid},
                                     !.file = NoPidFile,
                                     !.lock = 0]
    /\ UNCHANGED <<clock, evalVars, cacheVars, sinkVars, loopVars, tm, geo, cmdVars, manual,
                   sw, state_text, writer, toggles, conf>>

\* the daemon process ends without stop (killed, or the machine restarts):
\* its lock goes with it, the PID file stays
DaemonDies(p) ==
    /\ p \in pids.loops
    /\ pids' = [pids EXCEPT !.loops = @ \ {p},
                            !.lock = IF @ = p THEN 0 ELSE @]
    /\ UNCHANGED <<clock, evalVars, cacheVars, sinkVars, loopVars, tm, geo, cmdVars, manual,
                   sw, state_text, writer, toggles, conf>>

\* another process starts and gets a free pid, or ends
OtherProcess(p) ==
    /\ \/ p \in FreePids /\ pids' = [pids EXCEPT !.others = @ \cup {p}]
       \/ p \in pids.others /\ pids' = [pids EXCEPT !.others = @ \ {p}]
    /\ UNCHANGED <<clock, evalVars, cacheVars, sinkVars, loopVars, tm, geo, cmdVars, manual,
                   sw, state_text, writer, toggles, conf>>

PidNext ==
    \/ \E c \in Callers : StartCheck(c) \/ StartDaemonize(c) \/ StartExit(c)
    \/ DaemonStop
    \/ \E p \in 1..MaxPid : DaemonDies(p) \/ OtherProcess(p)

PidSpec == PidInit /\ [][PidNext]_vars

----------------------------------------------------------------------------
(* Race runs: the daemon's call of get_cached_or_fetch and that of a       *)
(* one-shot command proceed step by step on one cache file, at noon.       *)

RaceStart == DaySecs + 43200

RaceInit ==
    /\ clock = RaceStart
    /\ EvalIdle
    /\ cache \in {Absent,
                  CachedData(SunAt("A", LocalDate(RaceStart) - 1), RaceStart - DaySecs),
                  CachedData(SunAt("A", LocalDate(RaceStart)), RaceStart - 600)}
    /\ gof = [p \in Procs |-> Idle]
    /\ call = [p \in Procs |-> NoCall]
    /\ prev = NoPrev
    /\ ncalls = 0
    /\ touches = 0
    /\ advances = 0
    /\ SinkIdle
    /\ LoopIdle
    /\ AuxIdle

\* daemon.rs 54-57 or a command: get_cached_or_fetch is called
RaceEnter(p) ==
    /\ ncalls < MaxCalls
    /\ GofEnter(p)
    /\ ncalls' = ncalls + 1
    /\ UNCHANGED <<clock, evalVars, prev, touches, advances, sinkVars, loopVars>>
    /\ UNCHANGED auxVars

\* one step of the call of p
RaceStep(p) ==
    /\ GofStep(p, OracleFor("A", clock))
    /\ UNCHANGED <<clock, evalVars, prev, ncalls, touches, advances, sinkVars, loopVars>>
    /\ UNCHANGED auxVars

\* the caller takes the result
RaceExit(p) ==
    /\ gof[p].pc = "done"
    /\ gof' = [gof EXCEPT ![p] = Idle]
    /\ call' = [call EXCEPT ![p] = NoCall]
    /\ UNCHANGED <<clock, evalVars, cache, prev, ncalls, touches, advances, sinkVars,
                   loopVars>>
    /\ UNCHANGED auxVars

RaceNext == \E p \in Procs : RaceEnter(p) \/ RaceStep(p) \/ RaceExit(p)

RaceSpec == RaceInit /\ [][RaceNext]_vars

----------------------------------------------------------------------------
(* Manual runs: the daemon loop with a set or toggle command run beside it *)
(* at any point of its iterations; the calls of the loop take no time.   *)

ManualResponses ==
    {TransportFailure, ApiResponse("OK", DayLong.sunrise, DayLong.sunset)}

ManualInit ==
    /\ clock = DaySecs + 400
    /\ cache = Absent
    /\ gof = [p \in Procs |-> Idle]
    /\ call = [p \in Procs |-> NoCall]
    /\ prev = NoPrev
    /\ ncalls = 0
    /\ touches = 0
    /\ advances = 0
    /\ EvalIdle
    /\ SinkIdle
    /\ loop = "fetching"
    /\ now = None
    /\ sleep_duration = None
    /\ iter = 0
    /\ lat = 0
    /\ applied = NoApply
    /\ owed = {}
    /\ due = {}
    /\ served = {}
    /\ returned = NoRet
    /\ oks = 0
    /\ sinks = 0
    /\ slept = NoSleep
    /\ io_failures = 0
    /\ AuxIdle

\* the iteration whose Applying step is the first to come: the one in
\* progress when it has not yet applied or backed off, the next otherwise
NextApplying ==
    IF \/ loop \in {"current_mode", "apply"}
       \/ loop = "fetching" /\ gof["daemon"].pc # "idle"
    THEN iter
    ELSE iter + 1

\* a command applies mode m while the daemon runs
ManualApply(op, m) ==
    /\ manual.n < MaxManual
    /\ apply_theme(m, "ok")
    /\ manual' = [n |-> manual.n + 1, op |-> op, mode |-> m, at |-> clock,
                  sinks |-> sinks, due |-> NextApplying, asleep |-> loop = "sleep"]
    /\ UNCHANGED <<clock, evalVars, cacheVars, loopVars, tm, geo, cmdVars, swVars>>

\* theme.rs 10-18: set
ManualSet == \E m \in Modes : ManualApply("set", m)

\* theme.rs 20-34: toggle
ManualToggle ==
    ManualApply("toggle", IF state_file \in Modes THEN opposite(state_file) ELSE "Dark")

ManualNext ==
    \/ LoopFetch
    \/ LoopGof(ManualResponses)
    \/ LoopFetched
    \/ LoopBackoff
    \/ LoopCurrentMode
    \/ LoopApply
    \/ LoopNextSwitch
    \/ LoopSleepDuration
    \/ LoopSleep
    \/ ManualSet
    \/ ManualToggle

ManualSpec == ManualInit /\ [][ManualNext]_vars

\* C2: for sunrise < sunset, current_mode is Light exactly when
\* sunrise <= now < sunset and Dark otherwise (now = sunrise gives Light,
\* now = sunset gives Dark).
C2_CurrentModeHalfOpen ==
    (mode_now # None /\ WellFormed(sun_times)) =>
        /\ current_mode \in Modes
        /\ current_mode = "Light" <=>
               (sun_times.sunrise <= mode_now /\ mode_now < sun_times.sunset)
        /\ mode_now = sun_times.sunrise => current_mode = "Light"
        /\ mode_now = sun_times.sunset => current_mode = "Dark"

C2_Witness ==
    /\ WellFormed(sun_times)
    /\ mode_now = sun_times.sunrise
    /\ current_mode = "Light"

\* C3: for now < sunrise < sunset next_switch is (sunrise, Light); for
\* sunrise <= now < sunset (now = sunrise included) it is (sunset, Dark).
C3_NextSwitchToday ==
    (switch_now # None /\ WellFormed(sun_times)) =>
        /\ switch_now < sun_times.sunrise =>
               next_switch = <<sun_times.sunrise, "Light">>
        /\ (sun_times.sunrise <= switch_now /\ switch_now < sun_times.sunset) =>
               next_switch = <<sun_times.sunset, "Dark">>

C3_Witness ==
    /\ WellFormed(sun_times)
    /\ switch_now = sun_times.sunrise
    /\ next_switch = <<sun_times.sunset, "Dark">>

\* C4: for now >= sunset (now = sunset included; sunrise < sunset)
\* next_switch is (the held sunrise + exactly 24 hours, Light), and that
\* instant is after now exactly while now < sunrise + 24h.
C4_NextSwitchTomorrow ==
    (switch_now # None /\ WellFormed(sun_times)
        /\ switch_now >= sun_times.sunset) =>
        /\ next_switch = <<sun_times.sunrise + DaySecs, "Light">>
        /\ next_switch[1] > switch_now <=>
               switch_now < sun_times.sunrise + DaySecs

C4_Witness ==
    /\ WellFormed(sun_times)
    /\ switch_now >= sun_times.sunrise + DaySecs
    /\ next_switch = <<sun_times.sunrise + DaySecs, "Light">>
    /\ next_switch[1] <= switch_now

----------------------------------------------------------------------------
(* Daily cache properties.  Each speaks of a call that has reached its   *)
(* return (pc = "done"), through what the call saw (seen), received      *)
(* (resp), and did.                                                       *)

Returned(p) == gof[p].pc = "done"

Corrupt(c) == c.kind \in {"unreadable", "garbage", "partial"}

Hit(p) == call[p].seen.kind = "record" /\ call[p].seen.sun_times.date = gof[p].today

OracleOk(p) == call[p].oracle = 1 /\ fetch(call[p].resp, call[p].fetched_at).ok

OracleFailed(p) == call[p].oracle = 1 /\ ~fetch(call[p].resp, call[p].fetched_at).ok

\* C5: a readable record dated today is returned unchanged, with no oracle
\* call and no write of the cache.
C5_HitReturnsRecord ==
    \A p \in Procs :
        (Returned(p) /\ Hit(p)) =>
            /\ gof[p].ret = Ok(call[p].seen.sun_times)
            /\ call[p].oracle = 0
            /\ call[p].writes = 0
            /\ ~call[p].foreign => cache = call[p].cache0

C5_Witness ==
    /\ Returned("cli") /\ Hit("cli")
    /\ gof["cli"].ret.ok
    /\ cache = call["cli"].seen

\* C6 as stated: two calls within one calendar date with no write by another
\* party in between make at most one oracle call, whatever the first call's
\* outcome.
C6_AtMostOneOracleCall ==
    (Returned("cli") /\ prev.valid
        /\ LocalDate(prev.entered) = LocalDate(clock)
        /\ ~prev.touched /\ ~call["cli"].foreign) =>
        prev.oracle + call["cli"].oracle <= 1

\* C6 amended: ... at most one oracle call provided the first call returned
\* sun times (a first call that failed leaves no entry for the second).
C6_AtMostOneOracleCallAfterSuccess ==
    (Returned("cli") /\ prev.valid /\ prev.ok
        /\ LocalDate(prev.entered) = LocalDate(clock)
        /\ ~prev.touched /\ ~call["cli"].foreign) =>
        prev.oracle + call["cli"].oracle <= 1

C6_Witness ==
    /\ Returned("cli") /\ prev.valid /\ prev.ok
    /\ LocalDate(prev.entered) = LocalDate(clock)
    /\ ~prev.touched /\ ~call["cli"].foreign
    /\ prev.oracle = 1 /\ call["cli"].oracle = 0
    /\ gof["cli"].ret.ok

\* C7: a record whose date is not today is never returned, however recently
\* it was written; the call goes to the oracle and returns only what the
\* oracle gave.
C7_StaleNeverReturned ==
    \A p \in Procs :
        (Returned(p) /\ call[p].seen.kind = "record" /\ ~Hit(p)) =>
            /\ call[p].oracle = 1
            /\ gof[p].ret.ok =>
                  /\ OracleOk(p)
                  /\ gof[p].ret.sun_times = fetch(call[p].resp, call[p].fetched_at).sun_times

C7_Witness ==
    /\ Returned("cli")
    /\ call["cli"].seen.kind = "record" /\ ~Hit("cli")
    /\ call["cli"].entered - call["cli"].seen.cached_at <= 600
    /\ call["cli"].oracle = 1

\* C8: when the oracle call fails the error is returned and the call leaves
\* the cache file as it was; a stale entry is not returned.
C8_OracleFailureLeavesCache ==
    \A p \in Procs :
        (Returned(p) /\ OracleFailed(p)) =>
            /\ ~gof[p].ret.ok
            /\ gof[p].ret = fetch(call[p].resp, call[p].fetched_at)
            /\ call[p].writes = 0
            /\ ~call[p].foreign => cache = call[p].cache0

C8_Witness ==
    /\ Returned("cli") /\ OracleFailed("cli")
    /\ call["cli"].seen.kind = "record"
    /\ cache = call["cli"].seen
    /\ ~gof["cli"].ret.ok

Fetched(p) == fetch(call[p].resp, call[p].fetched_at).sun_times

\* C9 as stated: after a miss and a successful oracle call the record is
\* replaced by one holding exactly the returned sun times, stamped with the
\* local date of the fetch, and those sun times are returned.
C9_MissPersistsFetched ==
    \A p \in Procs :
        (Returned(p) /\ ~Hit(p) /\ OracleOk(p)) =>
            /\ gof[p].ret = Ok(Fetched(p))
            /\ Fetched(p).date = LocalDate(call[p].fetched_at)
            /\ ~call[p].foreign =>
                  /\ cache.kind = "record"
                  /\ cache.sun_times = gof[p].ret.sun_times

\* C9 amended: ... provided creating the cache directory and writing the
\* record succeed.
C9_MissPersistsFetchedWhenWritten ==
    \A p \in Procs :
        (Returned(p) /\ ~Hit(p) /\ OracleOk(p) /\ call[p].io = "ok") =>
            /\ gof[p].ret = Ok(Fetched(p))
            /\ Fetched(p).date = LocalDate(call[p].fetched_at)
            /\ Fetched(p).sunrise = call[p].resp.sunrise
            /\ Fetched(p).sunset = call[p].resp.sunset
            /\ ~call[p].foreign =>
                  /\ cache.kind = "record"
                  /\ cache.sun_times = gof[p].ret.sun_times
                  /\ cache.cached_at >= call[p].fetched_at

C9_Witness ==
    /\ Returned("cli") /\ OracleOk("cli") /\ call["cli"].io = "ok"
    /\ call["cli"].cache0.kind = "record"
    /\ call["cli"].cache0.sun_times # gof["cli"].ret.sun_times
    /\ cache.sun_times = gof["cli"].ret.sun_times

----------------------------------------------------------------------------
(* Scheduler loop properties *)

C11_FailureBacksOff ==
    /\ [][
          /\ (/\ loop = "fetching"
              /\ gof["daemon"].pc = "done"
              /\ ~gof["daemon"].ret.ok
              /\ loop' # loop) => loop' = "backoff"
          /\ (loop' = "backoff" /\ loop # "backoff") =>
                (loop = "fetching" /\ ~gof["daemon"].ret.ok)
          /\ loop = "backoff" =>
                /\ loop' = "fetching"
                /\ clock' = clock + BackoffSecs
                /\ gof'["daemon"].pc = "idle"
                /\ sinks' = sinks
       ]_vars
    /\ [](loop = "backoff" => ENABLED LoopBackoff)
    /\ []((loop = "fetching" /\ gof["daemon"].pc = "idle" /\ iter < MaxIter)
            => ENABLED LoopFetch)

\* every iteration of the run has failed, and the loop is at Fetching
C11_Witness ==
    /\ iter = MaxIter
    /\ oks = 0
    /\ loop = "fetching"
    /\ gof["daemon"].pc = "idle"
    /\ sinks = 0

\* C12: the loop invokes the sink once in every iteration whose
\* get_cached_or_fetch succeeded and in no other, after that call has
\* returned, and with current_mode of the sun times it returned.
C12_SinkOnlyAfterSuccess ==
    /\ sinks = oks - (IF loop \in {"current_mode", "apply"} THEN 1 ELSE 0)
    /\ loop \in {"current_mode", "apply", "next_switch", "sleep_duration", "sleep"} =>
          /\ returned.ok
          /\ gof["daemon"].pc = "idle"
          /\ sun_times = returned.sun_times
    /\ loop \in {"next_switch", "sleep_duration", "sleep"} =>
          /\ applied.iter = iter
          /\ applied.st = returned.sun_times
          /\ applied.mode = mode_of(returned.sun_times, applied.at)
    /\ (\/ loop \in {"backoff", "current_mode", "apply"}
        \/ loop = "fetching" /\ gof["daemon"].pc # "idle") => applied.iter < iter

\* the oracle failed in the first and in the second iteration and answered
\* in the third, whose sink call is the only one so far
C12_Witness ==
    /\ iter = 3
    /\ oks = 1
    /\ sinks = 1
    /\ applied.iter = 3
    /\ applied.mode \in Modes
    /\ loop = "next_switch"

C15_SleepWithinBounds ==
    /\ [](loop = "sleep" =>
             /\ returned.ok
             /\ BufferSecs <= sleep_duration
             /\ sleep_duration <= MaxSleepSecs
             /\ next_switch[1] - now >= 5 * MaxSleepSecs =>
                   sleep_duration = MaxSleepSecs)
    /\ [][loop = "sleep" =>
             /\ clock' = clock + sleep_duration
             /\ loop' = "fetching"
             /\ gof'["daemon"].pc = "idle"
             /\ slept'.woke = clock'
          ]_vars
    /\ []((/\ loop = "fetching"
            /\ gof["daemon"].pc = "idle"
            /\ slept.iter > 0
            /\ slept.iter = iter) => clock = slept.woke)

\* the loop woke four hours or more before the switch it slept for, which
\* was therefore five hours or more away when it slept its hour, and has
\* started the next get_cached_or_fetch
C15_Witness ==
    /\ loop = "fetching"
    /\ gof["daemon"].pc = "read"
    /\ iter = slept.iter + 1
    /\ call["daemon"].entered = slept.woke
    /\ slept.transition[1] - slept.woke >= 4 * MaxSleepSecs

\* C16: the loop is always at one of its seven positions, it moves between
\* them only along Fetching -> Applying -> Sleeping -> Fetching or
\* Fetching -> backoff -> Fetching, and at every position the loop can take
\* a step (until the run's bound on iterations is reached): no outcome of
\* the oracle, the cache or the sink ends it.
C16_NoTerminalState ==
    /\ [](loop \in {"fetching", "backoff", "current_mode", "apply", "next_switch",
                    "sleep_duration", "sleep"})
    /\ []((iter < MaxIter \/ ~(loop = "fetching" /\ gof["daemon"].pc = "idle")) =>
            ENABLED (\/ LoopFetch
                     \/ LoopGof(LoopResponses)
                     \/ LoopFetched
                     \/ LoopBackoff
                     \/ LoopCurrentMode
                     \/ LoopApply
                     \/ LoopNextSwitch
                     \/ LoopSleepDuration
                     \/ LoopSleep))
    /\ [][loop' = loop \/
             <<loop, loop'>> \in
                {<<"fetching", "backoff">>, <<"backoff", "fetching">>,
                 <<"fetching", "current_mode">>, <<"current_mode", "apply">>,
                 <<"apply", "next_switch">>, <<"next_switch", "sleep_duration">>,
                 <<"sleep_duration", "sleep">>, <<"sleep", "fetching">>}
          ]_vars

\* a get_cached_or_fetch failed, then a sink call failed, and the loop has
\* slept and is at Fetching with the next iteration ahead
C16_Witness ==
    /\ loop = "fetching"
    /\ gof["daemon"].pc = "idle"
    /\ iter = 2
    /\ oks = 1
    /\ applied.iter = 2
    /\ ~applied.ok
    /\ slept.iter = 2
    /\ ENABLED LoopFetch

\* C17: a mode applied after a sleep is current_mode of the sun times of
\* that iteration at a clock reading taken after the sleep ended, whatever
\* the switch the loop slept for.
C17_ModeRecomputedAtWake ==
    /\ (slept.iter > 0 /\ applied.iter > slept.iter) =>
          /\ applied.at >= slept.woke
          /\ applied.mode = mode_of(applied.st, applied.at)
    /\ (slept.iter > 0 /\ loop = "apply") =>
          /\ mode_now >= slept.woke
          /\ current_mode = mode_of(sun_times, mode_now)

\* the sleep ended short of the switch it was for (the cap of one hour),
\* and the mode applied at the wake is not the mode of that switch
C17_Witness ==
    /\ slept.iter > 0
    /\ applied.iter = slept.iter + 1
    /\ applied.ok
    /\ applied.at < slept.transition[1]
    /\ applied.mode # slept.transition[2]

\* C18: the mode of every sink call of the loop is Light exactly when the
\* clock reading of its iteration lies in [sunrise, sunset) of the sun times
\* of its iteration, in the first iteration of a run and in every later
\* one, whatever mode the state file held before the call; and those sun
\* times are the record read from the cache or else the oracle's answer.
C18_ModeFromSunTimesAndClock ==
    /\ applied.iter > 0 =>
          /\ applied.mode \in Modes
          /\ applied.mode = "Light" <=> is_daytime(applied.st, applied.at)
          /\ applied.st # NoTimes
          /\ applied.at <= clock
    /\ (Returned("daemon") /\ gof["daemon"].ret.ok) =>
          gof["daemon"].ret.sun_times =
             IF Hit("daemon") THEN call["daemon"].seen.sun_times ELSE Fetched("daemon")

\* a loop that has run for two iterations or more applies the mode that
\* the state file did not hold
C18_Witness ==
    /\ applied.iter >= 2
    /\ sinks >= 2
    /\ applied.was \in Modes
    /\ applied.mode # applied.was
    /\ applied.ok
    /\ state_file = applied.mode

\* C19: every SunTimes that fetch has constructed, that the cache file
\* holds or that the loop hands to current_mode and next_switch has
\* sunrise < sunset, both inside the 24 hours of its date.
C19_SunTimesWellFormed ==
    \A st \in ({gof[p].fetched : p \in Procs}
                \cup {gof[p].ret.sun_times : p \in Procs}
                \cup {cache.sun_times, sun_times}) \ {NoTimes} :
        /\ st.sunrise < st.sunset
        /\ st.date * DaySecs <= st.sunrise
        /\ st.sunset < (st.date + 1) * DaySecs

\* C20: a call that went to the oracle and met a transport failure, a body
\* that does not parse, or a status other than "OK" returns the error of
\* that kind, has constructed no SunTimes, and has written nothing to the
\* cache file.
C20_FetchFailsWithoutSunTimes ==
    \A p \in Procs :
        (/\ Returned(p)
         /\ call[p].oracle = 1
         /\ \/ ~call[p].resp.transport
            \/ ~call[p].resp.json
            \/ call[p].resp.status # "OK") =>
            /\ gof[p].ret = Err(IF ~call[p].resp.transport THEN "network"
                                ELSE IF ~call[p].resp.json THEN "parse"
                                ELSE "status")
            /\ gof[p].fetched = NoTimes
            /\ gof[p].content = Absent
            /\ call[p].io = "none"
            /\ call[p].writes = 0

\* the oracle answered with a well-formed body whose status is not "OK",
\* over a cache file that held no record for today
C20_Witness ==
    /\ Returned("cli")
    /\ call["cli"].oracle = 1
    /\ call["cli"].resp.transport /\ call["cli"].resp.json
    /\ call["cli"].resp.status = "INVALID_REQUEST"
    /\ call["cli"].resp.sunrise < call["cli"].resp.sunset
    /\ gof["cli"].ret.err = "status"
    /\ ~call["cli"].foreign
    /\ cache = call["cli"].cache0

----------------------------------------------------------------------------
(* ThemeMode properties *)

\* C24: opposite applied once gives the other mode and never the same one,
\* and applied twice gives the mode it started from, for Light and Dark.
C24_OppositeInvolution ==
    /\ tm.flips > 0 => tm.m \in Modes
    /\ tm.flips % 2 = 1 => tm.m # tm.m0
    /\ tm.flips % 2 = 0 => tm.m = tm.m0

C24_Witness ==
    /\ tm.flips = 2
    /\ tm.m0 = "Dark"
    /\ tm.m = "Dark"

\* C25: parsing as_str(m) gives m; a string parses to Light exactly when it
\* spells "light" in some mix of letter cases, to Dark exactly when it
\* spells "dark" so, and every other string, the empty one included, is an
\* error.
C25_ParseRoundTrip ==
    /\ tm.printed =>
          /\ tm.back = ModeOk(tm.m0)
          /\ tm.text = (IF tm.m0 = "Light" THEN <<"l", "i", "g", "h", "t">>
                        ELSE <<"d", "a", "r", "k">>)
    /\ tm.parsed # NoParse =>
          LET Spells(w) ==
                  /\ Len(tm.s) = Len(w)
                  /\ \A i \in 1..Len(w) :
                        \/ tm.s[i] = w[i]
                        \/ <<w[i], tm.s[i]>> \in CasePairs
          IN  /\ Spells(<<"l", "i", "g", "h", "t">>) => tm.parsed = ModeOk("Light")
              /\ Spells(<<"d", "a", "r", "k">>) => tm.parsed = ModeOk("Dark")
              /\ (~Spells(<<"l", "i", "g", "h", "t">>) /\ ~Spells(<<"d", "a", "r", "k">>))
                    => tm.parsed = ModeErr

\* "dArK" has parsed to Dark, and the round trip of the mode is done
C25_Witness ==
    /\ tm.s = <<"d", "A", "r", "K">>
    /\ tm.parsed = ModeOk("Dark")
    /\ tm.printed
    /\ tm.back = ModeOk(tm.m0)

----------------------------------------------------------------------------
(* The three clock readings of one iteration *)

\* C26: in an iteration that reaches the sleep, the transition the sleep
\* is computed from has the mode opposite to the mode applied in the same
\* iteration, and its instant is the first transition after the time at
\* which that mode was computed.
C26_TransitionMatchesAppliedMode ==
    (/\ loop \in {"sleep_duration", "sleep"}
     /\ WellFormed(sun_times)) =>
        /\ applied.iter = iter
        /\ next_switch[2] = opposite(applied.mode)
        /\ next_switch = switch_of(sun_times, applied.at)

----------------------------------------------------------------------------
(* Cache write failures in the loop *)

\* C27: when the oracle answered but create_dir_all or the write of the
\* cache record failed, get_cached_or_fetch returns an error and not the
\* fetched sun times; the loop handles it as any failed fetch, with the
\* 60 s backoff and no sink call; and the call of every iteration that
\* follows a write failure queries the oracle again.
C27_WriteFailureIsFetchFailure ==
    /\ []((/\ loop = "fetching"
           /\ gof["daemon"].pc = "done"
           /\ call["daemon"].io = "fail") =>
              /\ gof["daemon"].ret = Err("io")
              /\ call["daemon"].oracle = 1
              /\ fetch(call["daemon"].resp, call["daemon"].fetched_at).ok)
    /\ []((loop = "backoff" /\ returned.err = "io") =>
              /\ io_failures > 0
              /\ applied.iter < iter)
    /\ []((/\ io_failures > 0
           /\ loop = "fetching"
           /\ gof["daemon"].pc \in {"open", "write", "done"}) =>
              call["daemon"].oracle = 1)
    /\ [][
          /\ (/\ loop = "fetching"
              /\ gof["daemon"].pc = "done"
              /\ call["daemon"].io = "fail"
              /\ loop' # loop) =>
                 /\ loop' = "backoff"
                 /\ sinks' = sinks
          /\ (loop = "backoff" /\ returned.err = "io") =>
                 /\ clock' = clock + BackoffSecs
                 /\ loop' = "fetching"
                 /\ sinks' = sinks
          /\ (/\ io_failures > 0
              /\ loop = "fetching"
              /\ gof["daemon"].pc = "read") =>
                 gof'["daemon"].pc \in {"read", "fetch"}
       ]_vars

\* the write failed in the iteration before, and in this one the oracle
\* was called again and the write has failed again; no mode was applied
C27_Witness ==
    /\ io_failures = 1
    /\ loop = "fetching"
    /\ gof["daemon"].pc = "done"
    /\ call["daemon"].io = "fail"
    /\ call["daemon"].oracle = 1
    /\ gof["daemon"].ret = Err("io")
    /\ sinks = 0

----------------------------------------------------------------------------
(* One-shot commands *)

\* C21 as stated: every command that called get_cached_or_fetch and got an
\* error returns the error to its caller.
C21_FailureSurfaced ==
    (cmd.pc = "exited" /\ cmd.calls > 0 /\ ~cmd.ret.ok) => cmd.result = "err"

\* C21 amended: sun, status and init call get_cached_or_fetch at most once
\* per invocation, which asks the oracle at most once, and never again
\* after a failure; on a failure sun returns the error, status returns
\* success having shown nothing of it, init returns success having printed
\* a warning.
C21_CalledOnceNoRetry ==
    /\ cmd.calls <= 1
    /\ cmd.oracle <= 1
    /\ cmd.pc \in {"gof", "apply"} => cmd.calls = 1
    /\ (cmd.pc = "exited" /\ cmd.calls = 1 /\ ~cmd.ret.ok) =>
          /\ cmd.name = "sun" => (cmd.result = "err" /\ cmd.shown = "none")
          /\ cmd.name = "status" => (cmd.result = "ok" /\ cmd.shown = "none")
          /\ cmd.name = "init" => (cmd.result = "ok" /\ cmd.shown = "warning")
    /\ (cmd.pc = "exited" /\ cmd.calls = 1 /\ cmd.ret.ok) =>
          /\ cmd.result = "ok"
          /\ cmd.shown \in {"times", "applied", "warning"}

\* the status command has exited with success after its one call failed
\* at the oracle
C21_Witness ==
    /\ cmd.name = "status"
    /\ cmd.pc = "exited"
    /\ cmd.calls = 1
    /\ cmd.oracle = 1
    /\ cmd.ret = Err("network")
    /\ cmd.result = "ok"

\* C28: a call that finds in the cache file a record of today's date
\* returns the sun times of that record, which are those of the location
\* the record was fetched for and not of the location requested, and does
\* not ask the oracle; the oracle is asked for the requested location only
\* when the file holds no record of today's date.
C28_HitIgnoresCoordinates ==
    LET hit == cmd.seen.kind = "record" /\ cmd.seen.sun_times.date = cmd.today
    IN  /\ (cmd.pc \in {"apply", "exited"} /\ cmd.calls = 1 /\ hit) =>
              /\ cmd.ret = Ok(cmd.seen.sun_times)
              /\ cmd.seen_loc \in Locations
              /\ cmd.ret.sun_times = SunAt(cmd.seen_loc, cmd.today)
              /\ cmd.oracle = 0
        /\ (cmd.pc \in {"apply", "exited"} /\ cmd.calls = 1 /\ cmd.oracle > 0) =>
              /\ ~hit
              /\ cmd.ret.ok => cmd.ret.sun_times.sunrise = SunAt(cmd.loc, LocalDate(cmd.ret.sun_times.sunrise)).sunrise
        /\ cache.kind = "record" =>
              /\ cache_loc \in Locations
              /\ cache.sun_times.sunrise = SunAt(cache_loc, LocalDate(cache.sun_times.sunrise)).sunrise

\* init saved location B and its call returned, without asking the
\* oracle, the sun times that were fetched for A earlier the same day
C28_Witness ==
    /\ cmd.name = "init"
    /\ cmd.pc = "apply"
    /\ cmd.loc = "B"
    /\ location = "B"
    /\ cmd.seen_loc = "A"
    /\ cmd.ret = Ok(SunAt("A", cmd.today))
    /\ cmd.oracle = 0

----------------------------------------------------------------------------
(* Two callers on one cache file *)

\* C29: with the daemon's call and a command's call interleaved in any
\* way, a call that returns sun times returns those of today's date; no
\* call fails because of what it found in the cache file: it fails only
\* when its own oracle request or its own write failed, and succeeds
\* otherwise; and a call asks the oracle at most once, and only after
\* finding no record of today's date in the file.
C29_RaceOnlyRepeatsOracleCalls ==
    /\ \A p \in Procs :
          /\ call[p].oracle <= 1
          /\ gof[p].pc = "done" =>
                /\ gof[p].ret.ok => gof[p].ret.sun_times.date = LocalDate(clock)
                /\ gof[p].ret.ok => gof[p].ret.sun_times = SunAt("A", LocalDate(clock))
                /\ gof[p].ret.err # "cache"
                /\ ~gof[p].ret.ok <=>
                      \/ call[p].oracle = 1 /\ ~fetch(call[p].resp, call[p].fetched_at).ok
                      \/ call[p].io = "fail"
                /\ call[p].oracle = 1 =>
                      ~(/\ call[p].seen.kind = "record"
                        /\ call[p].seen.sun_times.date = LocalDate(clock))
    /\ cache.kind = "record" =>
          \/ cache.sun_times = SunAt("A", LocalDate(clock))
          \/ cache.sun_times = SunAt("A", LocalDate(clock) - 1)

\* the command read the file while the daemon had truncated it for its
\* own write, asked the oracle as well, and both calls returned today's
\* sun times
C29_Witness ==
    /\ gof["daemon"].pc = "done"
    /\ gof["cli"].pc = "done"
    /\ call["cli"].seen = Partial
    /\ call["cli"].foreign
    /\ call["daemon"].oracle = 1
    /\ call["cli"].oracle = 1
    /\ gof["daemon"].ret = Ok(SunAt("A", LocalDate(clock)))
    /\ gof["cli"].ret = Ok(SunAt("A", LocalDate(clock)))

----------------------------------------------------------------------------
(* Persisted mode *)

\* C23: when apply_theme(m) has returned success and nothing has touched
\* the state file since its write, get_current_mode reads m; and whenever
\* get_current_mode reads a mode, it is the mode passed to the most recent
\* apply_theme call that wrote the mode line of the file.
C23_PersistedModeIsLastApplied ==
    /\ \A p \in Procs :
          (sw[p].pc = "done" /\ sw[p].ret = "ok" /\ writer.touched_by = p) =>
              /\ get_current_mode(state_text) = ModeOk(sw[p].mode)
              /\ writer.by = p
              /\ writer.mode = sw[p].mode
    /\ LET r == get_current_mode(state_text) IN
          (r.ok /\ r.mode \in Modes) => r.mode = writer.mode
    /\ state_file = ModeOfText(state_text)

\* toggle read Light, applied Dark and returned success; the file now
\* reads Dark although bytes of the longer Light content remain at its end
C23_Witness ==
    /\ sw["cli"].op = "toggle"
    /\ sw["cli"].pc = "done"
    /\ sw["cli"].ret = "ok"
    /\ sw["cli"].seen = ModeOk("Light")
    /\ sw["cli"].mode = "Dark"
    /\ writer.touched_by = "cli"
    /\ get_current_mode(state_text) = ModeOk("Dark")
    /\ state_text.bytes # state_content("Dark")

----------------------------------------------------------------------------
(* Location resolver properties *)

\* C22 as stated: when the lookup has no matches geocode_location returns
\* the empty candidate list as a success.
C22_EmptyListIsSuccess ==
    (/\ geo.pc = "resolved"
     /\ geo.resp.transport /\ geo.resp.json
     /\ geo.resp.results = <<>>) =>
        geo.ret = GeoOk(<<>>)

\* C22 amended: when the lookup has no matches geocode_location returns an
\* error; when it has matches it returns as a success those whose
\* coordinates parse, which is the empty list when none does.
C22_NoMatchesIsError ==
    (/\ geo.pc = "resolved"
     /\ geo.resp.transport /\ geo.resp.json) =>
        LET rs == geo.resp.results
            good == {i \in 1..Len(rs) : rs[i].lat.ok /\ rs[i].lon.ok}
        IN  /\ rs = <<>> => (~geo.ret.ok /\ geo.ret.err = "none")
            /\ rs # <<>> =>
                  /\ geo.ret.ok
                  /\ Len(geo.ret.locations) = Cardinality(good)
                  /\ \A k \in 1..Len(geo.ret.locations) :
                        \E i \in good :
                            /\ geo.ret.locations[k].display_name = rs[i].display_name
                            /\ geo.ret.locations[k].latitude = rs[i].lat.v
                            /\ geo.ret.locations[k].longitude = rs[i].lon.v
            /\ (geo.ret.ok /\ geo.ret.locations = <<>>) => (rs # <<>> /\ good = {})

\* the geocoder answered with an empty list and the resolver returned the
\* error
C22_Witness ==
    /\ geo.pc = "resolved"
    /\ geo.resp = GeoResults(<<>>)
    /\ ~geo.ret.ok
    /\ geo.ret.err = "none"

----------------------------------------------------------------------------
(* Manual changes under the daemon *)

\* C30 as stated: once the daemon's next wake after a set or toggle has
\* gone through its iteration, the loop has invoked the sink and the two
\* sinks hold the sun-derived mode again.
C30_OverwrittenAtNextWake ==
    (/\ manual.n > 0
     /\ \/ iter > manual.due
        \/ iter = manual.due /\ loop \in {"backoff", "next_switch", "sleep_duration", "sleep"}) =>
        /\ sinks > manual.sinks
        /\ state_file = applied.mode
        /\ ghostty = applied.mode

\* C30 amended: every iteration whose fetch succeeded invokes the sink,
\* also when the mode is the one applied last; so after a set or toggle
\* the first iteration whose fetch succeeds invokes the sink, and when that
\* call succeeds both sinks hold the sun-derived mode again, whatever the
\* command had set.  Without a failure that is the iteration of the next
\* wake, and a wake follows a change made during a sleep by 1 hour at most.
C30_OverwrittenByNextSuccess ==
    /\ loop \in {"next_switch", "sleep_duration", "sleep"} =>
          /\ applied.iter = iter
          /\ sinks = oks
    /\ (/\ manual.n > 0
        /\ iter >= manual.due
        /\ loop \in {"next_switch", "sleep_duration", "sleep"}) =>
          sinks > manual.sinks
    /\ (manual.n > 0 /\ sinks > manual.sinks /\ applied.ok) =>
          /\ state_file = applied.mode
          /\ ghostty = applied.mode
          /\ applied.mode = mode_of(applied.st, applied.at)
    /\ (manual.n > 0 /\ manual.asleep /\ slept.iter = manual.due - 1) =>
          /\ slept.woke <= manual.at + MaxSleepSecs
          /\ slept.woke >= manual.at

\* toggle set Dark during the daylight sleep before the last iteration;
\* the loop woke within the hour, found the mode it had applied last,
\* Light, and applied it again over the Dark
C30_Witness ==
    /\ manual.op = "toggle"
    /\ manual.mode = "Dark"
    /\ manual.asleep
    /\ iter = manual.due
    /\ loop = "next_switch"
    /\ applied.ok
    /\ applied.was = "Dark"
    /\ applied.mode = "Light"
    /\ state_file = "Light"
    /\ applied.at <= manual.at + MaxSleepSecs

----------------------------------------------------------------------------
(* Toggle *)

\* C31: a toggle that read mode m from the state file applies
\* opposite(m), one that found no file or no mode line in it applies Dark,
\* and on success the file gives the applied mode; of two successful
\* toggles in a row the second applies, and leaves in the file, the mode
\* the first one read.
C31_ToggleFlipsPersistedMode ==
    /\ (sw["cli"].op = "toggle" /\ sw["cli"].pc = "ghostty") =>
          sw["cli"].seen = get_current_mode(state_text)
    /\ (sw["cli"].op = "toggle" /\ sw["cli"].pc \in {"ghostty", "open", "write"}) =>
          /\ sw["cli"].seen.ok
          /\ sw["cli"].seen.mode = "Light" => sw["cli"].mode = "Dark"
          /\ sw["cli"].seen.mode = "Dark" => sw["cli"].mode = "Light"
          /\ sw["cli"].seen.mode = NoMode => sw["cli"].mode = "Dark"
    /\ \A i \in 1..Len(toggles) :
          toggles[i].ret = "ok" =>
              /\ toggles[i].seen.ok
              /\ toggles[i].seen.mode \in Modes => toggles[i].mode # toggles[i].seen.mode
              /\ toggles[i].seen.mode = NoMode => toggles[i].mode = "Dark"
              /\ toggles[i].after = ModeOk(toggles[i].mode)
    /\ \A i \in 1..(Len(toggles) - 1) :
          (/\ toggles[i].ret = "ok"
           /\ toggles[i + 1].ret = "ok"
           /\ toggles[i].seen.mode \in Modes) =>
              /\ toggles[i + 1].mode = toggles[i].seen.mode
              /\ toggles[i + 1].after = toggles[i].seen

\* the state file gave Light; the first toggle applied Dark, the second
\* applied Light, and the file gives Light again
C31_Witness ==
    /\ Len(toggles) = 2
    /\ toggles[1].seen = ModeOk("Light")
    /\ toggles[1].ret = "ok"
    /\ toggles[1].after = ModeOk("Dark")
    /\ toggles[2].ret = "ok"
    /\ toggles[2].after = ModeOk("Light")
    /\ get_current_mode(state_text) = ModeOk("Light")

\* C32: a toggle that returned Ok, with nothing touching the state file
\* after its write, leaves the file giving the opposite of the mode the
\* file gave just before toggle opened it for writing, whatever the
\* daemon's apply_theme did between toggle's read and its write.
C32_ToggleFlipsModeBeforeItsWrite ==
    (/\ sw["cli"].op = "toggle"
     /\ sw["cli"].pc = "done"
     /\ sw["cli"].ret = "ok"
     /\ writer.touched_by = "cli"
     /\ sw["cli"].before \in Modes) =>
        ModeOfText(state_text) = opposite(sw["cli"].before)

----------------------------------------------------------------------------
(* Ghostty config update *)

\* the positions of the lines that set the key `theme`
ThemeAt(ls) == {i \in 1..Len(ls) : IsThemeLine(ls[i])}

\* ls with line i replaced by the theme line when some line sets `theme`
\* and i is the first, or with the theme line put first when none does
IsUpdateOf(new, ls, theme_name) ==
    IF ThemeAt(ls) = {}
    THEN new = <<ThemeLine(theme_name)>> \o ls
    ELSE /\ Len(new) = Len(ls)
         /\ \A i \in 1..Len(ls) :
               IF i \in ThemeAt(ls) /\ \A j \in ThemeAt(ls) : i <= j
               THEN new[i] = ThemeLine(theme_name)
               ELSE new[i] = ls[i]

\* C33 as stated: on the lines between the line feeds of the content, the
\* update replaces only the first line with key `theme`, keeps the others
\* as they are and in order, puts the theme line first when there is none,
\* and a second update with the same name gives what the first gave.
C33_UpdateKeepsOtherLinesAndIsIdempotent ==
    /\ Len(conf.out) >= 1 =>
          IsUpdateOf(lines_keeping_cr(conf.out[1]), lines_keeping_cr(conf.content),
                     conf.theme_name)
    /\ Len(conf.out) >= 2 => conf.out[2] = conf.out[1]

\* C33 (amended): on the lines str::lines gives (ended by a line feed or
\* by a carriage return and a line feed), the update replaces only the
\* first line with key `theme`, keeps the others as they are and in
\* order, puts the theme line first when there is none, also for empty
\* content, and ends every line with a line feed; for content without a
\* carriage return a second update with the same name gives what the
\* first gave.
C33_UpdateOnLinesIdempotentWithoutCR ==
    /\ Len(conf.out) >= 1 =>
          /\ IsUpdateOf(lines_keeping_cr(conf.out[1]), lines(conf.content), conf.theme_name)
          /\ conf.out[1][Len(conf.out[1])] = NL
    /\ (/\ Len(conf.out) >= 2
        /\ \A i \in 1..Len(conf.content) : conf.content[i] # CR) =>
          /\ conf.out[2] = conf.out[1]
          /\ IsUpdateOf(lines_keeping_cr(conf.out[1]), lines_keeping_cr(conf.content),
                        conf.theme_name)

\* a file of three lines without carriage returns whose second and third
\* set `theme`: two updates, the second line replaced, the third kept
C33_Witness ==
    /\ Len(conf.out) = 2
    /\ \A i \in 1..Len(conf.content) : conf.content[i] # CR
    /\ Len(lines(conf.content)) = 3
    /\ ThemeAt(lines(conf.content)) = {2, 3}
    /\ lines(conf.out[2])[2] = ThemeLine(conf.theme_name)
    /\ lines(conf.out[2])[3] = lines(conf.content)[3]
    /\ lines(conf.out[2])[3] # ThemeLine(conf.theme_name)

----------------------------------------------------------------------------
(* One daemon *)

\* the PID file holds the pid of a live process
PidFileNamesLive == pids.file.exists /\ pids.file.pid \in LivePids

\* C34: at most one loop runs at a time, and a start command that begins
\* while the PID file holds the pid of a live process ends with Ok at its
\* is_running check: it launches nothing and leaves the PID file, its
\* lock and every process as they are.
C34_StartLeavesRunningDaemonAlone ==
    /\ [](Cardinality(pids.loops) <= 1)
    /\ [][\A c \in Callers :
            (PidFileNamesLive /\ pids.st[c].pc = "idle" /\ pids'.st[c].pc # "idle") =>
                /\ pids'.st[c].pc = "done"
                /\ pids'.st[c].ret = "already running"
                /\ pids'.file = pids.file
                /\ pids'.lock = pids.lock
                /\ pids'.loops = pids.loops
                /\ pids'.others = pids.others]_vars

\* a start command has ended at its check while the daemon an earlier
\* start launched runs and the PID file holds its pid
C34_Witness ==
    /\ \E c \in Callers : pids.st[c].pc = "done" /\ pids.st[c].ret = "already running"
    /\ \E c \in Callers : pids.st[c].ret = "started"
    /\ Cardinality(pids.loops) = 1
    /\ pids.file.exists
    /\ pids.file.pid \in pids.loops

=============================================================================
